---- MODULE Spec2Model ----
(***************************************************************************)
(* TAR per-diem validation (jraa1995/work_related).                        *)
(*                                                                         *)
(* Two deployments of the same server are modelled side by side:           *)
(*   "updated" : automation_gsa_per_diem/updated/tar_build/utils.js with   *)
(*               updated/config.js                                         *)
(*   "gas"     : automation_gsa_per_diem/GAS/main.gs with utils.gs         *)
(*               (src/unnamed/part_000) and GAS/config.gs                  *)
(*                                                                         *)
(* JavaScript values are records [t, v]: t is the type tag, v the payload. *)
(*   "undef", "null", "nan"  payload 0                                     *)
(*   "str"   payload a sequence of one-character strings                   *)
(*   "num"   payload an exact rational <<n, d>>, d > 0, in lowest terms    *)
(*   "inf"   payload the sign (1 or -1)                                    *)
(*   "arr"   payload a sequence                                            *)
(* Objects are functions from the names of their own properties.           *)
(* Numbers are exact: binary rounding of IEEE doubles is not modelled.     *)
(***************************************************************************)
EXTENDS Integers, Sequences, FiniteSets, TLC

----------------------------------------------------------------------------
(* Exact rational arithmetic standing in for JavaScript numbers.           *)

Abs(i) == IF i < 0 THEN -i ELSE i

RECURSIVE Gcd(_, _)
Gcd(a, b) == IF b = 0 THEN a ELSE Gcd(b, a % b)

(* n/d divided through by g, with a positive denominator.                  *)
Reduce(n, d, g) ==
  IF d < 0 THEN <<(-n) \div g, (-d) \div g>> ELSE <<n \div g, d \div g>>

Rat(n, d) == Reduce(n, d, Gcd(Abs(n), Abs(d)))

RInt(i) == <<i, 1>>
RAdd(a, b) == Rat(a[1] * b[2] + b[1] * a[2], a[2] * b[2])
RSub(a, b) == Rat(a[1] * b[2] - b[1] * a[2], a[2] * b[2])
RMul(a, b) == Rat(a[1] * b[1], a[2] * b[2])
RDiv(a, b) == Rat(a[1] * b[2], a[2] * b[1])
RAbs(a) == <<Abs(a[1]), a[2]>>
RLeq(a, b) == a[1] * b[2] <= b[1] * a[2]
RLt(a, b) == a[1] * b[2] < b[1] * a[2]
RIsZero(a) == a[1] = 0
RSign(a) == IF a[1] > 0 THEN 1 ELSE IF a[1] < 0 THEN -1 ELSE 0

(* floor(x + 1/2): the integer nearest to x, the larger one on a tie.      *)
RRound(a) == (2 * a[1] + a[2]) \div (2 * a[2])

----------------------------------------------------------------------------
(* JavaScript values.                                                      *)

Undef == [t |-> "undef", v |-> 0]
Null == [t |-> "null", v |-> 0]
NaN == [t |-> "nan", v |-> 0]
Inf(s) == [t |-> "inf", v |-> s]
Str(s) == [t |-> "str", v |-> s]
NumR(r) == [t |-> "num", v |-> r]
Num(i) == NumR(RInt(i))
Arr(s) == [t |-> "arr", v |-> s]

(* Property read: a missing property reads as undefined.                   *)
Get(obj, k) == IF k \in DOMAIN obj THEN obj[k] ELSE Undef

(* Property write.                                                         *)
Put(obj, k, val) ==
  [f \in (DOMAIN obj) \cup {k} |-> IF f = k THEN val ELSE obj[f]]

(* ToBoolean.                                                              *)
Truthy(x) ==
  CASE x.t = "undef" -> FALSE
    [] x.t = "null" -> FALSE
    [] x.t = "nan" -> FALSE
    [] x.t = "str" -> Len(x.v) > 0
    [] x.t = "num" -> ~RIsZero(x.v)
    [] OTHER -> TRUE

----------------------------------------------------------------------------
(* Strings are sequences of one-character strings.                         *)

DigitChars == <<"0", "1", "2", "3", "4", "5", "6", "7", "8", "9">>
IsDigit(c) == \E i \in 1..10 : DigitChars[i] = c
DigitVal(c) == (CHOOSE i \in 1..10 : DigitChars[i] = c) - 1
IsSpace(c) == c \in {" ", "\t", "\n"}

Drop(s, n) == IF n >= Len(s) THEN <<>> ELSE SubSeq(s, n + 1, Len(s))
Take(s, n) == IF n >= Len(s) THEN s ELSE SubSeq(s, 1, n)

RECURSIVE TrimLeft(_)
TrimLeft(s) ==
  IF s # <<>> /\ IsSpace(Head(s)) THEN TrimLeft(Tail(s)) ELSE s

RECURSIVE TrimRight(_)
TrimRight(s) ==
  IF s # <<>> /\ IsSpace(s[Len(s)]) THEN TrimRight(Take(s, Len(s) - 1)) ELSE s

(* String.prototype.trim *)
Trim(s) == TrimRight(TrimLeft(s))

(* String.prototype.includes for a one-character needle.                   *)
Includes(s, c) == \E i \in 1..Len(s) : s[i] = c

(* Position of the first occurrence of c, or 0.                            *)
IndexOf(s, c) ==
  IF Includes(s, c) THEN CHOOSE i \in 1..Len(s) :
                           s[i] = c /\ \A j \in 1..(i - 1) : s[j] # c
  ELSE 0

(* String.prototype.split for a one-character separator.                   *)
RECURSIVE Split(_, _)
Split(s, c) ==
  LET i == IndexOf(s, c)
  IN  IF i = 0 THEN <<s>>
      ELSE <<Take(s, i - 1)>> \o Split(Drop(s, i), c)

(* Removal of every character of a set: replace(/[...]/g, '').             *)
RECURSIVE Strip(_, _)
Strip(s, cs) ==
  IF s = <<>> THEN <<>>
  ELSE IF Head(s) \in cs THEN Strip(Tail(s), cs)
  ELSE <<Head(s)>> \o Strip(Tail(s), cs)

LowerChars ==
  <<"a", "b", "c", "d", "e", "f", "g", "h", "i", "j", "k", "l", "m", "n",
    "o", "p", "q", "r", "s", "t", "u", "v", "w", "x", "y", "z">>
UpperChars ==
  <<"A", "B", "C", "D", "E", "F", "G", "H", "I", "J", "K", "L", "M", "N",
    "O", "P", "Q", "R", "S", "T", "U", "V", "W", "X", "Y", "Z">>

UpperOf(c) ==
  IF \E i \in 1..26 : LowerChars[i] = c
  THEN UpperChars[CHOOSE i \in 1..26 : LowerChars[i] = c]
  ELSE c

(* String.prototype.toUpperCase                                            *)
ToUpperCase(s) == [i \in 1..Len(s) |-> UpperOf(s[i])]

(* Length of the longest prefix of s made of digits.                       *)
RECURSIVE DigitRun(_)
DigitRun(s) ==
  IF s # <<>> /\ IsDigit(Head(s)) THEN 1 + DigitRun(Tail(s)) ELSE 0

(* Value of a sequence of digits.                                          *)
RECURSIVE DigitsValue(_)
DigitsValue(s) ==
  IF s = <<>> THEN 0
  ELSE 10 * DigitsValue(Take(s, Len(s) - 1)) + DigitVal(s[Len(s)])

RECURSIVE Pow10(_)
Pow10(k) == IF k = 0 THEN 1 ELSE 10 * Pow10(k - 1)

(* Decimal digits of a natural number.                                     *)
RECURSIVE NatChars(_)
NatChars(n) ==
  IF n < 10 THEN <<DigitChars[n + 1]>>
  ELSE NatChars(n \div 10) \o <<DigitChars[(n % 10) + 1]>>

----------------------------------------------------------------------------
(* Numeric conversions.                                                    *)

(* Sign and unsigned remainder of a string with leading blanks removed.    *)
SignOf(s) == IF s # <<>> /\ Head(s) = "-" THEN -1 ELSE 1
Unsigned(s) == IF s # <<>> /\ Head(s) \in {"-", "+"} THEN Tail(s) ELSE s

StartsWithDot(rest) == rest # <<>> /\ Head(rest) = "."

(* The digits after a decimal point at the head of rest.                   *)
FractionOf(rest) ==
  IF StartsWithDot(rest) THEN Take(Tail(rest), DigitRun(Tail(rest))) ELSE <<>>

(* <<characters consumed, value>> of a literal with ni integer digits and  *)
(* the fraction digits frac; 0 consumed means that no number starts here.  *)
DecimalParts(u, ni, hasDot, frac) ==
  IF ni = 0 /\ frac = <<>> THEN <<0, RInt(0)>>
  ELSE <<ni + (IF hasDot THEN 1 + Len(frac) ELSE 0),
         Rat(DigitsValue(Take(u, ni)) * Pow10(Len(frac)) + DigitsValue(frac),
             Pow10(Len(frac)))>>

(* StrDecimalLiteral prefix of u: digits, then optionally "." and digits.  *)
DecimalPrefix(u) ==
  DecimalParts(u, DigitRun(u), StartsWithDot(Drop(u, DigitRun(u))),
               FractionOf(Drop(u, DigitRun(u))))

(* The number a prefix stands for, NaN when nothing was consumed.          *)
SignedPrefix(sign, p) ==
  IF p[1] = 0 THEN NaN ELSE NumR(RMul(RInt(sign), p[2]))

ParseFloatStr(s) == SignedPrefix(SignOf(s), DecimalPrefix(Unsigned(s)))

(* Global parseFloat: the longest numeric prefix, NaN when there is none.  *)
parseFloat(x) ==
  CASE x.t = "num" -> x
    [] x.t = "inf" -> x
    [] x.t = "str" -> ParseFloatStr(TrimLeft(x.v))
    [] OTHER -> NaN

ParseIntDigits(sign, u, n) ==
  IF n = 0 THEN NaN ELSE Num(sign * DigitsValue(Take(u, n)))

ParseIntStr(s) == ParseIntDigits(SignOf(s), Unsigned(s), DigitRun(Unsigned(s)))

(* Global parseInt, radix 10: sign and leading digits, NaN when none; a    *)
(* number is converted to its decimal string first, which truncates it.    *)
parseInt(x) ==
  CASE x.t = "num" -> Num(RSign(x.v) * (Abs(x.v[1]) \div x.v[2]))
    [] x.t = "str" -> ParseIntStr(TrimLeft(x.v))
    [] OTHER -> NaN

(* A literal has to span the whole string.                                 *)
WholeLiteral(sign, len, p) ==
  IF p[1] = 0 \/ p[1] # len THEN NaN ELSE NumR(RMul(RInt(sign), p[2]))

ToNumberStr(s) ==
  IF s = <<>> THEN Num(0)
  ELSE WholeLiteral(SignOf(s), Len(Unsigned(s)), DecimalPrefix(Unsigned(s)))

(* ToNumber, as applied by isNaN() and by the relational operators: the    *)
(* whole trimmed string has to be a numeric literal; "" and null are 0.    *)
ToNumber(x) ==
  CASE x.t = "num" -> x
    [] x.t = "inf" -> x
    [] x.t = "null" -> Num(0)
    [] x.t = "str" -> ToNumberStr(Trim(x.v))
    [] OTHER -> NaN

isNaN(x) == ToNumber(x).t = "nan"

IsLeqZero(n) ==
  CASE n.t = "num" -> n.v[1] <= 0
    [] n.t = "inf" -> n.v < 0
    [] OTHER -> FALSE

(* x <= 0 after ToNumber; a comparison with NaN is false.                  *)
LeqZero(x) == IsLeqZero(ToNumber(x))

(* Number.prototype.toFixed(2), as a count of hundredths.                  *)
toFixed2(r) == RRound(RMul(r, RInt(100)))

(* String(x) for the values the form fields take (a number that is not an  *)
(* integer is written with two decimals; the inputs use integers).         *)
ToStr(x) ==
  CASE x.t = "str" -> x.v
    [] x.t = "num" ->
         (IF x.v[1] < 0 THEN <<"-">> ELSE <<>>)
           \o NatChars(Abs(x.v[1]) \div x.v[2])
           \o (IF x.v[2] = 1 THEN <<>>
               ELSE <<".">> \o NatChars(toFixed2(RAbs(x.v)) % 100))
    [] x.t = "nan" -> <<"N", "a", "N">>
    [] x.t = "null" -> <<"n", "u", "l", "l">>
    [] OTHER -> <<"u", "n", "d", "e", "f", "i", "n", "e", "d">>

AllDigits(s) == \A i \in 1..Len(s) : IsDigit(s[i])

----------------------------------------------------------------------------
(* Configuration: updated/config.js and GAS/config.gs.                     *)

Impls == {"updated", "gas"}

DEFAULT_MIE == 79
DEFAULT_LODGING == 150
COST_BUFFER == 10
MAX_DEVIATION_PERCENT == 15

requiredFields ==
  <<"travelerName", "travelPurpose", "estimatedCost", "dutyStation",
    "contactNumber">>

(* vendorCodeFormat: /^E\d{8,9}$/ *)
vendorCodeFormat(s) ==
  /\ Len(s) \in {9, 10}
  /\ s[1] = "E"
  /\ AllDigits(Tail(s))

(* The digits of a phone number after its optional "+".                    *)
PhoneDigits(s) == IF s # <<>> /\ Head(s) = "+" THEN Tail(s) ELSE s

(* phoneFormat. updated/config.js: /^[\+]?[1-9][\d]{0,15}$/                *)
(*              GAS/config.gs:     /^[\+]?\d{7,15}$/                       *)
phoneFormat(impl, s) ==
  /\ AllDigits(PhoneDigits(s))
  /\ IF impl = "updated"
     THEN Len(PhoneDigits(s)) \in 1..16 /\ Head(PhoneDigits(s)) # "0"
     ELSE Len(PhoneDigits(s)) \in 7..15

----------------------------------------------------------------------------
(* validateFormData                                                        *)

MissingMsg(field) ==
  CASE field = "travelerName" -> "Missing required field: travelerName"
    [] field = "travelPurpose" -> "Missing required field: travelPurpose"
    [] field = "estimatedCost" -> "Missing required field: estimatedCost"
    [] field = "dutyStation" -> "Missing required field: dutyStation"
    [] field = "contactNumber" -> "Missing required field: contactNumber"

IsMissing(value) ==
  \/ value.t \in {"undef", "null"}
  \/ value.t = "str" /\ Trim(value.v) = <<>>

RECURSIVE RequiredErrors(_, _)
RequiredErrors(data, fields) ==
  IF fields = <<>> THEN <<>>
  ELSE (IF IsMissing(Get(data, Head(fields)))
        THEN <<MissingMsg(Head(fields))>> ELSE <<>>)
       \o RequiredErrors(data, Tail(fields))

vendorCodeErrors(data) ==
  IF Truthy(Get(data, "vendorCode"))
     /\ ~vendorCodeFormat(Trim(ToStr(Get(data, "vendorCode"))))
  THEN <<"Invalid vendor code format">> ELSE <<>>

phoneErrors(impl, data) ==
  IF Truthy(Get(data, "contactNumber"))
     /\ ~phoneFormat(impl, Strip(ToStr(Get(data, "contactNumber")),
                                 {" ", "\t", "\n", "-", "(", ")"}))
  THEN <<"Invalid phone number format">> ELSE <<>>

estimatedCostErrors(data) ==
  IF Truthy(Get(data, "estimatedCost"))
     /\ (isNaN(Get(data, "estimatedCost")) \/ LeqZero(Get(data, "estimatedCost")))
  THEN <<"Invalid estimated cost">> ELSE <<>>

ValidationOf(errors) == [isValid |-> errors = <<>>, errors |-> errors]

validateFormData(impl, data) ==
  ValidationOf(RequiredErrors(data, requiredFields)
                 \o vendorCodeErrors(data)
                 \o phoneErrors(impl, data)
                 \o estimatedCostErrors(data))

----------------------------------------------------------------------------
(* average and the rate lookup                                             *)

(* The midpoint of a range whose two ends parse, else parseFloat(value).   *)
Midpoint(low, high, value) ==
  IF low.t = "num" /\ high.t = "num"
  THEN NumR(RDiv(RAdd(low.v, high.v), RInt(2)))
  ELSE parseFloat(value)

RangeRate(parts, value) ==
  Midpoint(parseFloat(Str(Trim(parts[1]))), parseFloat(Str(Trim(parts[2]))),
           value)

parseRate(value) ==
  IF value.t \in {"undef", "null"} THEN NaN
  ELSE IF value.t = "str" /\ Includes(value.v, "-")
  THEN RangeRate(Split(value.v, "-"), value)
  ELSE parseFloat(value)

(* Fault: an entry that does not parse is counted as 0 instead of being    *)
(* dropped.                                                                *)
KeepAsZero(n) == IF n.t = "nan" THEN <<RInt(0)>> ELSE <<n.v>>

(* .filter((n) => !isNaN(n)) on one element                                *)
KeepNumber(n) == IF n.t = "nan" THEN <<>> ELSE <<n.v>>

(* values.map(parseRate).filter(...)                                       *)
RECURSIVE Rates(_)
Rates(values) ==
  IF values = <<>> THEN <<>>
  ELSE KeepNumber(parseRate(Head(values))) \o Rates(Tail(values))

(* nums.reduce((a, b) => a + b, 0)                                         *)
RECURSIVE Sum(_)
Sum(nums) == IF nums = <<>> THEN RInt(0) ELSE RAdd(Head(nums), Sum(Tail(nums)))

Mean(nums) == IF Len(nums) # 0 THEN RDiv(Sum(nums), RInt(Len(nums))) ELSE RInt(0)

(* The result is a rational: the function never returns NaN.               *)
average(values) == Mean(Rates(values))

Months ==
  <<"Jan", "Feb", "Mar", "Apr", "May", "Jun", "Jul", "Aug", "Sep", "Oct",
    "Nov", "Dec">>

MonthValues(rateData) == [i \in 1..12 |-> Get(rateData, Months[i])]

(* The answer of the rate source to one request:                           *)
(*   kind "neterr"   UrlFetchApp.fetch throws                              *)
(*   kind "http"     a response code other than 200                        *)
(*   kind "badjson"  a 200 response whose body JSON.parse rejects          *)
(*   kind "empty"    a 200 response holding an empty array                 *)
(*   kind "ok"       a 200 response whose first element is rate            *)
(*   kind "none"     updated under Node.js with neither UrlFetchApp nor    *)
(*                   fetch defined: no request can be sent                 *)
(* fetchPerDiemByCityState returns Null or the rate object, and reports    *)
(* whether the source was called and how many requests were sent.          *)

(* A lookup that sends its request a second time.                          *)
FetchTwice(city, state, response) ==
  [called |-> TRUE, calls |-> 2,
   rateData |-> IF response.kind = "ok"
                THEN [t |-> "obj", v |-> response.rate] ELSE Null]

fetchPerDiemByCityState(city, state, response) ==
  IF ~Truthy(city) \/ ~Truthy(state)
  THEN [called |-> FALSE, calls |-> 0, rateData |-> Null]
  ELSE IF response.kind = "none"
  THEN [called |-> FALSE, calls |-> 0, rateData |-> Null]
  ELSE IF response.kind = "ok"
  THEN [called |-> TRUE, calls |-> 1,
        rateData |-> [t |-> "obj", v |-> response.rate]]
  ELSE [called |-> TRUE, calls |-> 1, rateData |-> Null]

(* parseFloat(rateData.Meals) || CONFIG.DEFAULT_MIE                        *)
MealsOrDefault(m) == IF Truthy(m) THEN m.v ELSE RInt(DEFAULT_MIE)

(* Fault: the configured defaults are not applied to an absent lookup.     *)
RatesOfNoDefault(rateData) ==
  IF Truthy(rateData)
  THEN [mie |-> MealsOrDefault(parseFloat(Get(rateData.v, "Meals"))),
        lodging |-> average(MonthValues(rateData.v))]
  ELSE [mie |-> RInt(0), lodging |-> RInt(0)]

(* mie and lodging of one lookup, as both calculators derive them.         *)
RatesOf(rateData) ==
  IF Truthy(rateData)
  THEN [mie |-> MealsOrDefault(parseFloat(Get(rateData.v, "Meals"))),
        lodging |-> average(MonthValues(rateData.v))]
  ELSE [mie |-> RInt(DEFAULT_MIE), lodging |-> RInt(DEFAULT_LODGING)]

----------------------------------------------------------------------------
(* calculateExpectedCosts (itinerary mode)                                 *)

(* Template literal `${a}, ${b}`.                                          *)
CommaJoin(a, b) == ToStr(a) \o <<",", " ">> \o ToStr(b)

(* Trace entry of one call of fetchPerDiemByCityState.                     *)
LookupOf(city, state, f) ==
  [city |-> city, state |-> state, called |-> f.called, calls |-> f.calls,
   absent |-> ~Truthy(f.rateData)]

BreakdownItem(location, date, r) ==
  [location |-> location, date |-> date, mie |-> r.mie,
   lodging |-> r.lodging, total |-> RAdd(r.mie, r.lodging)]

(* One pass of the forEach body, for the answer f of the lookup.           *)
StopEntry(item, f) ==
  [lookup |-> LookupOf(Get(item, "city"), Get(item, "state"), f),
   item |-> BreakdownItem(CommaJoin(Get(item, "city"), Get(item, "state")),
                          Get(item, "date"), RatesOf(f.rateData))]

(* One entry per stop, in stop order; the i-th stop receives the i-th      *)
(* answer of the rate source.                                              *)
RECURSIVE CostItems(_, _)
CostItems(itinerary, responses) ==
  IF itinerary = <<>> THEN <<>>
  ELSE <<StopEntry(Head(itinerary),
                   fetchPerDiemByCityState(Get(Head(itinerary), "city"),
                                           Get(Head(itinerary), "state"),
                                           Head(responses)))>>
       \o CostItems(Tail(itinerary), Tail(responses))

(* totalExpected += dailyTotal over the breakdown                          *)
RECURSIVE SumTotals(_)
SumTotals(breakdown) ==
  IF breakdown = <<>> THEN RInt(0)
  ELSE RAdd(Head(breakdown).total, SumTotals(Tail(breakdown)))

CostsOf(items) ==
  [totalExpected |-> SumTotals([i \in 1..Len(items) |-> items[i].item]),
   breakdown |-> [i \in 1..Len(items) |-> items[i].item],
   lookups |-> [i \in 1..Len(items) |-> items[i].lookup]]

calculateExpectedCosts(itinerary, responses) ==
  CostsOf(CostItems(itinerary, responses))

----------------------------------------------------------------------------
(* generateValidationReport                                                *)

RuleA == "Claimed cost exceeds expected amount by more than acceptable buffer"
RuleB == "Variance exceeds maximum acceptable deviation"
RuleC == "No itinerary data found - manual review required"

(* (x / totalExpected) * 100 as a JavaScript number.                       *)
PercentOf(x, totalExpected) ==
  IF RIsZero(totalExpected)
  THEN (IF RIsZero(x) THEN NaN ELSE Inf(RSign(x)))
  ELSE NumR(RMul(RDiv(x, totalExpected), RInt(100)))

(* n.toFixed(2): hundredths for a finite number, else "NaN" / "Infinity".  *)
FixedOf(n) == IF n.t = "num" THEN [t |-> "fixed", v |-> toFixed2(n.v)] ELSE n

(* Math.abs(s) > limit for the string s that toFixed(2) produced.          *)
FixedAbsGt(f, limit) ==
  CASE f.t = "fixed" -> Abs(f.v) > limit * 100
    [] f.t = "inf" -> TRUE
    [] OTHER -> FALSE

(* n <= limit for a JavaScript number n.                                   *)
NumLeq(n, limit) ==
  CASE n.t = "num" -> RLeq(n.v, RInt(limit))
    [] n.t = "inf" -> n.v < 0
    [] OTHER -> FALSE

(* Math.abs(n) <= limit.                                                   *)
NumAbsLeq(n, limit) ==
  CASE n.t = "num" -> RLeq(RAbs(n.v), RInt(limit))
    [] OTHER -> FALSE

Unknown == Str(<<"U", "n", "k", "n", "o", "w", "n">>)

(* extractedData.travelerName || "Unknown"                                 *)
TravelerOf(extractedData) ==
  IF Truthy(Get(extractedData, "travelerName"))
  THEN Get(extractedData, "travelerName")
  ELSE Unknown

(* updated: (Math.abs(variance) / totalExpected) * 100 <= MAX;             *)
(* utils.gs: Math.abs(variancePercent) <= MAX, variancePercent being 0     *)
(* when totalExpected is 0.                                                *)
isWithinDeviationOf(impl, variance, totalExpected) ==
  IF impl = "updated"
  THEN NumLeq(PercentOf(RAbs(variance), totalExpected), MAX_DEVIATION_PERCENT)
  ELSE IF RIsZero(totalExpected) THEN TRUE
  ELSE NumAbsLeq(PercentOf(variance, totalExpected), MAX_DEVIATION_PERCENT)

(* The variancePercent field: the result of toFixed(2).                    *)
variancePercentOf(impl, variance, totalExpected) ==
  IF impl = "gas" /\ RIsZero(totalExpected)
  THEN [t |-> "fixed", v |-> 0]
  ELSE FixedOf(PercentOf(variance, totalExpected))

(* The recommendations, from the conditions of the three if statements.    *)
Recommendations(ruleA, ruleB, ruleC) ==
  (IF ruleA THEN <<RuleA>> ELSE <<>>)
    \o (IF ruleB THEN <<RuleB>> ELSE <<>>)
    \o (IF ruleC THEN <<RuleC>> ELSE <<>>)

(* updated tests variance > COST_BUFFER and the rounded variancePercent;   *)
(* utils.gs tests the two flags.                                           *)
ReportOf(impl, traveler, expectedCosts, claimedCost, variance, variancePercent, isWithinBuffer, isWithinDeviation) ==
  [traveler |-> traveler,
   expectedCosts |-> expectedCosts,
   claimedCost |-> claimedCost,
   variance |-> variance,
   variancePercent |-> variancePercent,
   isWithinBuffer |-> isWithinBuffer,
   isWithinDeviation |-> isWithinDeviation,
   recommendations |->
     Recommendations(IF impl = "updated"
                     THEN RLt(RInt(COST_BUFFER), variance)
                     ELSE ~isWithinBuffer,
                     IF impl = "updated"
                     THEN FixedAbsGt(variancePercent, MAX_DEVIATION_PERCENT)
                     ELSE ~isWithinDeviation,
                     expectedCosts.breakdown = <<>>)]

ReportFor(impl, extractedData, expectedCosts, claimedCost, variance) ==
  ReportOf(impl, TravelerOf(extractedData), expectedCosts, claimedCost,
           variance,
           variancePercentOf(impl, variance, expectedCosts.totalExpected),
           RLeq(RAbs(variance), RInt(COST_BUFFER)),
           isWithinDeviationOf(impl, variance, expectedCosts.totalExpected))

generateValidationReport(impl, extractedData, expectedCosts, claimedCost) ==
  ReportFor(impl, extractedData, expectedCosts, claimedCost,
            RSub(claimedCost, expectedCosts.totalExpected))

----------------------------------------------------------------------------
(* logValidationResults and clearValidationLogs                            *)
(*                                                                         *)
(* The log sheet is [provisioned, rows]: provisioned says whether the      *)
(* script property VALIDATION_LOG_SHEET_ID is set; rows holds "HEADER" for *)
(* the header row and, for a data row, its Status column.                  *)

NoSheet == [provisioned |-> FALSE, rows |-> <<>>]

StatusOf(impl, report) ==
  IF impl = "updated"
  THEN (IF report.isWithinBuffer THEN "APPROVED" ELSE "NEEDS REVIEW")
  ELSE (IF report.isWithinBuffer /\ report.isWithinDeviation
        THEN "Valid" ELSE "Invalid")

(* The sheet the function writes to: the existing one, or a new one with   *)
(* its header row.                                                         *)
OpenSheet(sheet) ==
  IF sheet.provisioned THEN sheet
  ELSE [provisioned |-> TRUE, rows |-> <<"HEADER">>]

(* The first spreadsheet call that throws when logging fails: getProperty  *)
(* (always the case under Node.js, where PropertiesService is undefined),  *)
(* the write of the header row, or the appendRow of the data row.          *)
LogThrowSites == {"getProperty", "setValues", "appendRow"}

(* The sheet a failed log call leaves: setProperty comes before the header *)
(* is written and the header before the data row.  On a provisioned sheet  *)
(* no header is written, and a failure leaves the sheet as it was.         *)
ThrownAt(sheet, site) ==
  CASE site = "getProperty" -> sheet
    [] site = "setValues" ->
         IF sheet.provisioned THEN sheet
         ELSE [provisioned |-> TRUE, rows |-> <<>>]
    [] OTHER -> OpenSheet(sheet)

(* logOk = FALSE: a spreadsheet service call throws at site; the error is  *)
(* caught and logged.                                                      *)
logValidationResults(impl, report, sheet, logOk, site) ==
  IF ~logOk THEN ThrownAt(sheet, site)
  ELSE [provisioned |-> TRUE,
        rows |-> Append(OpenSheet(sheet).rows, StatusOf(impl, report))]

(* The call of clearValidationLogs that throws, if any: up to sheet.clear() *)
(* nothing is changed; after it the sheet is empty until the header is     *)
(* written again.                                                          *)
ClearThrowSites == {"none", "getProperty", "setValues"}

clearValidationLogs(sheet, site) ==
  IF ~sheet.provisioned \/ site = "getProperty" THEN sheet
  ELSE IF site = "setValues" THEN [sheet EXCEPT !.rows = <<>>]
  ELSE [sheet EXCEPT !.rows = <<"HEADER">>]

----------------------------------------------------------------------------
(* extractGSAFormData, at the level of the regular expressions' captures.  *)
(* A document text is [captures, dates, locations]: captures maps a field  *)
(* of GSA_FIELD_PATTERNS whose pattern matches with a non-empty group to   *)
(* that group; dates and locations are the matches of datePattern and      *)
(* cityStatePattern in the itinerary section.                              *)

Min(a, b) == IF a < b THEN a ELSE b

extractItineraryData(text) ==
  [i \in 1..Min(Len(text.dates), Len(text.locations)) |->
     [date |-> Str(text.dates[i]),
      city |-> Str(Trim(text.locations[i][1])),
      state |-> Str(Trim(text.locations[i][2]))]]

(* if (extracted[f]) extracted[f] = parseFloat(extracted[f].replace(...))  *)
ParseNumericField(extracted, field) ==
  IF Truthy(Get(extracted, field))
  THEN Put(extracted, field,
           parseFloat(Str(Strip(extracted[field].v, {","}))))
  ELSE extracted

extractGSAFormData(text) ==
  ParseNumericField(
    ParseNumericField(
      Put([f \in DOMAIN text.captures |-> Str(Trim(text.captures[f]))],
          "itinerary", Arr(extractItineraryData(text))),
      "estimatedCost"),
    "perDiem")

----------------------------------------------------------------------------
(* validateTarWithPerDiem: merge and canonicalization                      *)

(* { ...a, ...b } and Object.assign({}, a, b)                              *)
Spread(a, b) ==
  [k \in (DOMAIN a) \cup (DOMAIN b) |-> IF k \in DOMAIN b THEN b[k] ELSE a[k]]

(* n || dflt                                                               *)
OrElse(n, dflt) == IF Truthy(n) THEN n ELSE Num(dflt)

(* duration: parseInt(src.duration) || 1, totalCost: parseFloat(...) || 0  *)
CoerceNumbers(m, src) ==
  Put(Put(m, "duration", OrElse(parseInt(Get(src, "duration")), 1)),
      "totalCost", OrElse(parseFloat(Get(src, "totalCost")), 0))

(* Fault: the spread in the wrong order, extracted values over manual     *)
(* ones.                                                                   *)
MergeExtractedLast(impl, extractedData, data) ==
  CoerceNumbers(Spread(data, extractedData), Spread(data, extractedData))

(* updated coerces data.duration and data.totalCost; GAS coerces the       *)
(* fields of the merged object.                                            *)
MergeData(impl, extractedData, data) ==
  IF impl = "updated"
  THEN CoerceNumbers(Spread(extractedData, data), data)
  ELSE CoerceNumbers(Spread(extractedData, data), Spread(extractedData, data))

(* if (!m[field] && m[alias]) m[field] = m[alias]                          *)
Alias(m, field, alias) ==
  IF ~Truthy(Get(m, field)) /\ Truthy(Get(m, alias))
  THEN Put(m, field, Get(m, alias)) ELSE m

DutyStationFromCityState(m) ==
  IF ~Truthy(Get(m, "dutyStation")) /\ Truthy(Get(m, "city"))
     /\ Truthy(Get(m, "state"))
  THEN Put(m, "dutyStation", Str(CommaJoin(m["city"], m["state"])))
  ELSE m

(* totalCost is a number after the merge, so the typeof test always holds. *)
EstimatedCostFallback(m) ==
  IF ~Truthy(Get(m, "estimatedCost"))
  THEN Put(m, "estimatedCost", m["totalCost"]) ELSE m

FirstStopStation(m, it) ==
  IF ~Truthy(Get(m, "dutyStation")) /\ it.t = "arr" /\ Len(it.v) > 0
     /\ Truthy(Get(it.v[1], "city")) /\ Truthy(Get(it.v[1], "state"))
  THEN Put(m, "dutyStation",
           Str(CommaJoin(Get(it.v[1], "city"), Get(it.v[1], "state"))))
  ELSE m

(* updated only: the first itinerary stop supplies a missing dutyStation.  *)
DutyStationFromItinerary(m) == FirstStopStation(m, Get(m, "itinerary"))

(* if (!m.city) m.city = cityPart; if (!m.state) m.state = statePart       *)
FillCityState(m, cityPart, statePart) ==
  LET m1 == IF ~Truthy(Get(m, "city")) THEN Put(m, "city", Str(cityPart))
            ELSE m
  IN  IF ~Truthy(Get(m, "state")) THEN Put(m1, "state", Str(statePart))
      ELSE m1

SplitParts(m, parts) ==
  IF Len(parts) >= 2
  THEN FillCityState(m, Trim(parts[1]), ToUpperCase(Take(Trim(parts[2]), 2)))
  ELSE m

(* The body of the dutyStation parse, for a string dutyStation.            *)
SplitDutyStation(m) == SplitParts(m, Split(m["dutyStation"].v, ","))

NeedsCityState(m) == ~Truthy(Get(m, "city")) \/ ~Truthy(Get(m, "state"))

(* updated guards the parse by typeof === 'string' and includes(',');      *)
(* GAS calls split on any truthy dutyStation, which throws a TypeError     *)
(* when it is not a string.                                                *)
CityStateFromDutyStation(impl, m) ==
  IF ~(NeedsCityState(m) /\ Truthy(Get(m, "dutyStation")))
  THEN [thrown |-> FALSE, merged |-> m]
  ELSE IF m["dutyStation"].t # "str"
  THEN [thrown |-> impl = "gas", merged |-> m]
  ELSE IF impl = "updated" /\ ~Includes(m["dutyStation"].v, ",")
  THEN [thrown |-> FALSE, merged |-> m]
  ELSE [thrown |-> FALSE, merged |-> SplitDutyStation(m)]

ItineraryStep(impl, m) ==
  IF impl = "updated" THEN DutyStationFromItinerary(m) ELSE m

Canonicalize(impl, merged0) ==
  CityStateFromDutyStation(impl,
    ItineraryStep(impl,
      EstimatedCostFallback(
        Alias(DutyStationFromCityState(
                Alias(Alias(merged0, "travelerName", "traveler"),
                      "travelPurpose", "purpose")),
              "contactNumber", "poc"))))

----------------------------------------------------------------------------
(* validateTarWithPerDiem                                                  *)
(*                                                                         *)
(* A run takes the request data and the environment of the run:            *)
(*   env.text       what extractTextFromPDF returns (Null, an empty        *)
(*                  string, or a document text)                            *)
(*   env.responses  the answers of the rate source, in call order          *)
(*   env.logOk      whether the spreadsheet service works                  *)
(*   env.logThrows  the call that throws when it does not                  *)
(* and the log sheet. It yields the returned object together with a trace  *)
(* of what the run did: the phases entered, the merged record right after  *)
(* the merge and after canonicalization, the lookups made, and the sheet.  *)

Today == Str(<<"t", "o", "d", "a", "y">>)

(* Fault: the catch block reports error.message without its prefix and     *)
(* leaves isValid unset.                                                   *)
SystemErrorBare(message, phases, merged0, merged, sheet) ==
  [outcome |-> "SYSTEM_ERROR", success |-> FALSE, isValidSet |-> FALSE,
   isValid |-> FALSE, errors |-> <<message>>,
   warnings |-> <<>>, extractedData |-> <<>>,
   reported |-> FALSE, validationReport |-> Undef, expectedCost |-> 0,
   claimedCost |-> 0, variance |-> 0, variancePercent |-> Undef,
   breakdown |-> <<>>,
   phases |-> phases, merged0 |-> merged0, merged |-> merged,
   lookups |-> <<>>, costCalculated |-> FALSE, logged |-> FALSE,
   sheet |-> sheet]

(* The catch block, for an exception whose error.message is message: the   *)
(* object it returns holds success, errors and isValid (and a message for  *)
(* display); it has no warnings, validationReport or extractedData.        *)
SystemError(message, phases, merged0, merged, sheet) ==
  [outcome |-> "SYSTEM_ERROR", success |-> FALSE, isValidSet |-> TRUE,
   isValid |-> FALSE, errors |-> <<"System error: " \o message>>,
   warnings |-> <<>>, extractedData |-> <<>>,
   reported |-> FALSE, validationReport |-> Undef, expectedCost |-> 0,
   claimedCost |-> 0, variance |-> 0, variancePercent |-> Undef,
   breakdown |-> <<>>,
   phases |-> phases, merged0 |-> merged0, merged |-> merged,
   lookups |-> <<>>, costCalculated |-> FALSE, logged |-> FALSE,
   sheet |-> sheet]

(* The early return of the field check.                                    *)
Fail(errors, warnings, merged0, merged, sheet) ==
  [outcome |-> "FAIL", success |-> FALSE, isValidSet |-> FALSE,
   isValid |-> FALSE, errors |-> errors, warnings |-> warnings,
   extractedData |-> <<>>,
   reported |-> FALSE, validationReport |-> Null, expectedCost |-> 0,
   claimedCost |-> 0, variance |-> 0, variancePercent |-> Undef,
   breakdown |-> <<>>,
   phases |-> <<"INIT", "MERGING", "FIELD_CHECK", "FAIL">>,
   merged0 |-> merged0, merged |-> merged,
   lookups |-> <<>>, costCalculated |-> FALSE, logged |-> FALSE,
   sheet |-> sheet]

(* Does the run take the itinerary branch? updated tests                   *)
(* itinerary && itinerary.length > 0, GAS tests Array.isArray first.       *)
UsesItinerary(impl, it) ==
  IF impl = "updated"
  THEN it.t \in {"arr", "str"} /\ Len(it.v) > 0
  ELSE it.t = "arr" /\ Len(it.v) > 0

(* Fault: the daily total is not multiplied by the duration.               *)
DurationTotalsPerDay(item, duration, lookup) ==
  [totalExpected |-> item.total,
   breakdown |-> <<item>>,
   lookups |-> <<lookup>>]

(* totalExpected: dailyTotal * duration, with the one breakdown item.      *)
DurationTotals(item, duration, lookup) ==
  [totalExpected |-> RMul(item.total, duration),
   breakdown |-> <<item>>,
   lookups |-> <<lookup>>]

DurationLookup(city, state, duration, date, f) ==
  DurationTotals(BreakdownItem(CommaJoin(city, state), date,
                               RatesOf(f.rateData)),
                 duration, LookupOf(city, state, f))

DurationFor(city, state, merged, responses) ==
  DurationLookup(city, state, merged["duration"].v,
                 IF Truthy(Get(merged, "tripDate")) THEN merged["tripDate"]
                 ELSE Today,
                 fetchPerDiemByCityState(city, state, Head(responses)))

(* Duration mode: one lookup for the trip.                                 *)
DurationModeCosts(merged, responses) ==
  DurationFor(IF Truthy(Get(merged, "city")) THEN merged["city"] ELSE Unknown,
              IF Truthy(Get(merged, "state")) THEN merged["state"]
              ELSE Unknown,
              merged, responses)

(* The warning of the duration branch when the lookup returned null.       *)
DurationWarnings(costs) ==
  IF costs.lookups[1].absent
  THEN <<"Unable to fetch GSA rates - using default values">> ELSE <<>>

(* The returned object of a run that reached the report.                   *)
ResultOf(merged0, merged, warnings, costs, validationReport, logged, sheet) ==
  [outcome |-> "REPORT_READY", success |-> TRUE, isValidSet |-> TRUE,
   isValid |-> validationReport.isWithinBuffer
                 /\ validationReport.isWithinDeviation,
   errors |-> <<>>, warnings |-> warnings, extractedData |-> <<>>,
   reported |-> TRUE, validationReport |-> validationReport,
   expectedCost |-> toFixed2(costs.totalExpected),
   claimedCost |-> toFixed2(merged["totalCost"].v),
   variance |-> toFixed2(validationReport.variance),
   variancePercent |-> validationReport.variancePercent,
   breakdown |-> costs.breakdown,
   phases |-> <<"INIT", "MERGING", "FIELD_CHECK", "COST_CALC",
                "REPORT_READY">>,
   merged0 |-> merged0, merged |-> merged,
   lookups |-> costs.lookups, costCalculated |-> TRUE, logged |-> logged,
   sheet |-> sheet]

Logged(impl, merged0, merged, warnings, costs, validationReport, env, sheet) ==
  ResultOf(merged0, merged, warnings, costs, validationReport, env.logOk,
           logValidationResults(impl, validationReport, sheet, env.logOk,
                                env.logThrows))

(* From the expected costs to the returned object.                         *)
Complete(impl, merged0, merged, warnings, costs, env, sheet) ==
  Logged(impl, merged0, merged, warnings, costs,
         generateValidationReport(
           impl, merged,
           [totalExpected |-> costs.totalExpected,
            breakdown |-> costs.breakdown],
           merged["totalCost"].v),
         env, sheet)

DurationBranch(impl, merged0, merged, warnings0, costs, env, sheet) ==
  Complete(impl, merged0, merged, warnings0 \o DurationWarnings(costs), costs,
           env, sheet)

(* The cost calculation and everything after it.                           *)
CostCalc(impl, merged0, merged, warnings0, env, sheet) ==
  IF UsesItinerary(impl, Get(merged, "itinerary"))
  THEN (IF merged["itinerary"].t # "arr"
        THEN SystemError("itinerary.forEach is not a function",
                         <<"INIT", "MERGING", "FIELD_CHECK", "COST_CALC",
                           "SYSTEM_ERROR">>,
                         merged0, merged, sheet)
        ELSE Complete(impl, merged0, merged, warnings0,
                      calculateExpectedCosts(merged["itinerary"].v,
                                             env.responses),
                      env, sheet))
  ELSE DurationBranch(impl, merged0, merged, warnings0,
                      DurationModeCosts(merged, env.responses), env, sheet)

(* Fault: the field check without its early return.                       *)
FieldCheckNoReturn(impl, merged0, merged, warnings0, validation, env, sheet) ==
  CostCalc(impl, merged0, merged, warnings0, env, sheet)

(* The field check and its early return.                                   *)
FieldCheck(impl, merged0, merged, warnings0, validation, env, sheet) ==
  IF ~validation.isValid
  THEN Fail(validation.errors, warnings0, merged0, merged, sheet)
  ELSE CostCalc(impl, merged0, merged, warnings0, env, sheet)

Canonicalized(impl, merged0, canon, warnings0, env, sheet) ==
  IF canon.thrown
  THEN SystemError("mergedData.dutyStation.split is not a function",
                   <<"INIT", "MERGING", "SYSTEM_ERROR">>,
                   merged0, canon.merged, sheet)
  ELSE FieldCheck(impl, merged0, canon.merged, warnings0,
                  validateFormData(impl, canon.merged), env, sheet)

Merged(impl, merged0, warnings0, env, sheet) ==
  Canonicalized(impl, merged0, Canonicalize(impl, merged0), warnings0, env,
                sheet)

(* Fault: a failed extraction pushes no warning.                           *)
ExtractionNoWarning(data, text) ==
  IF Truthy(Get(data, "pdfContent")) /\ Truthy(text)
  THEN [extractedData |-> extractGSAFormData(text.v), warnings |-> <<>>]
  ELSE [extractedData |-> <<>>, warnings |-> <<>>]

(* The extraction step: the extracted record and the warning.              *)
Extraction(data, text) ==
  IF ~Truthy(Get(data, "pdfContent"))
  THEN [extractedData |-> <<>>, warnings |-> <<>>]
  ELSE IF Truthy(text)
  THEN [extractedData |-> extractGSAFormData(text.v), warnings |-> <<>>]
  ELSE [extractedData |-> <<>>,
        warnings |-> <<"PDF extraction failed - using manual input">>]

(* The record the extraction step stored in result.extractedData, kept in  *)
(* the trace of every run.                                                 *)
WithExtracted(result, extractedData) ==
  [result EXCEPT !.extractedData = extractedData]

Extracted(impl, data, ex, env, sheet) ==
  WithExtracted(Merged(impl, MergeData(impl, ex.extractedData, data),
                       ex.warnings, env, sheet),
                ex.extractedData)

validateTarWithPerDiem(impl, data, env, sheet) ==
  IF data.t # "obj"
  THEN SystemError("Cannot read properties of undefined",
                   <<"INIT", "SYSTEM_ERROR">>, <<>>, <<>>, sheet)
  ELSE Extracted(impl, data.v, Extraction(data.v, env.text), env, sheet)


----------------------------------------------------------------------------
(* client.js offlineValidateTar: the validation the page runs itself when  *)
(* no Apps Script server is reachable.                                     *)

(* x || fallback over a parsed number: NaN and 0 are falsy.                *)
OrNumber(n, fallback) ==
  IF n.t = "num" /\ ~RIsZero(n.v) THEN n.v ELSE fallback

(* CONFIG.MAX_DEVIATION_PERCENT || 100                                     *)
MaxDeviationOr100 ==
  IF MAX_DEVIATION_PERCENT # 0 THEN MAX_DEVIATION_PERCENT ELSE 100

(* expected ? (variance / expected) * 100 : 0                              *)
OfflinePercent(variance, expected) ==
  IF RIsZero(expected) THEN RInt(0)
  ELSE RMul(RDiv(variance, expected), RInt(100))

(* const isValid = isWithinBuffer || isWithinDeviation                     *)
OfflineIsValid(isWithinBuffer, isWithinDeviation) ==
  isWithinBuffer \/ isWithinDeviation

OfflineResult(expected, variance, variancePercent, isWithinBuffer, isWithinDeviation) ==
  [success |-> TRUE,
   isValid |-> OfflineIsValid(isWithinBuffer, isWithinDeviation),
   expected |-> expected,
   variance |-> variance,
   variancePercent |-> toFixed2(variancePercent),
   isWithinBuffer |-> isWithinBuffer,
   isWithinDeviation |-> isWithinDeviation]

OfflineFlags(expected, variance, variancePercent) ==
  OfflineResult(expected, variance, variancePercent,
                RLeq(RAbs(variance), RInt(COST_BUFFER)),
                RLeq(RAbs(variancePercent), RInt(MaxDeviationOr100)))

OfflineVariance(expected, totalCost) ==
  OfflineFlags(expected, RSub(totalCost, expected),
               OfflinePercent(RSub(totalCost, expected), expected))

(* data is the mapped record; a data that is not an object makes the read  *)
(* of data.duration throw, which the catch turns into success: false.      *)
offlineValidateTar(data) ==
  IF data.t # "obj"
  THEN [success |-> FALSE]
  ELSE OfflineVariance(
         RMul(RInt(DEFAULT_MIE + DEFAULT_LODGING),
              OrNumber(parseInt(Get(data.v, "duration")), RInt(1))),
         OrNumber(parseFloat(Get(data.v, "totalCost")), RInt(0)))
----------------------------------------------------------------------------
(* Regular expressions, as document_processor uses them. A pattern is a    *)
(* sequence of items, each a character class with a repetition range       *)
(* (max < 0: unbounded, greedy) or an assertion;  matching backtracks   *)
(* as RegExp does, trying the longest repetition first.                    *)

CharsOf(seq) == {seq[k] : k \in 1..Len(seq)}
Digit == CharsOf(DigitChars)
Upper == CharsOf(UpperChars)
Lower == CharsOf(LowerChars)
Letter == Upper \cup Lower
Space == {" ", "\t", "\n", "\r"}
WordChar == Letter \cup Digit \cup {"_"}
AnyChar == WordChar \cup Space \cup {",", ".", ":", "/", "-", "$", "(", ")", "+", "#", "&"}
NotNewline == AnyChar \ {"\n", "\r"}

(* The two cases of a letter, for the i flag.                              *)
BothCases(c) ==
  {c} \cup {LowerChars[k] : k \in {j \in 1..26 : UpperChars[j] = c}}
      \cup {UpperChars[k] : k \in {j \in 1..26 : LowerChars[j] = c}}

Rep(cls, min, max) == [kind |-> "rep", cls |-> cls, min |-> min, max |-> max]
One(cls) == Rep(cls, 1, 1)
Star(cls) == Rep(cls, 0, -1)
Plus(cls) == Rep(cls, 1, -1)
Maybe(cls) == Rep(cls, 0, 1)
Boundary == [kind |-> "wb", cls |-> {}, min |-> 0, max |-> 0]
Ahead(cls) == [kind |-> "ahead", cls |-> cls, min |-> 0, max |-> 0]
Before(cls) == [kind |-> "before", cls |-> cls, min |-> 0, max |-> 0]
Lit(str) == [k \in 1..Len(str) |-> One({str[k]})]
LitI(str) == [k \in 1..Len(str) |-> One(BothCases(str[k]))]

(* The characters of cls in a row from position i, at most cap of them.    *)
Max(a, b) == IF a > b THEN a ELSE b

Room(s, i, cap) ==
  IF cap < 0 \/ cap > Len(s) - i + 1 THEN Max(Len(s) - i + 1, 0) ELSE cap
InRow(s, i, cls, room) ==
  CHOOSE n \in 0..room :
    /\ \A j \in 0..(n - 1) : s[i + j] \in cls
    /\ n < room => s[i + n] \notin cls
Run(s, i, cls, cap) == InRow(s, i, cls, Room(s, i, cap))

IsWordAt(s, i) == i \in 1..Len(s) /\ s[i] \in WordChar
AtBoundary(s, i) == IsWordAt(s, i - 1) # IsWordAt(s, i)

(* \b, (?=[cls]) and (?=[cls]|$).                                          *)
Asserted(item, s, i) ==
  IF item.kind = "wb" THEN AtBoundary(s, i)
  ELSE IF i > Len(s) THEN item.kind = "ahead"
  ELSE s[i] \in item.cls

NoMatch == [ok |-> FALSE, pos |-> <<>>]

(* Items k.. of re matched from position i: pos lists the position after   *)
(* each item.                                                              *)
(* The longest repetition the rest of the pattern matches after: rests[c]  *)
(* is the match of the rest after c characters.                            *)
Hits(rests) == {c \in DOMAIN rests : rests[c].ok}
Longest(counts) == CHOOSE c \in counts : \A d \in counts : d <= c
Accept(rest, i, c) == [ok |-> TRUE, pos |-> <<i + c>> \o rest.pos]
Pick(rests, i) ==
  IF Hits(rests) = {} THEN NoMatch
  ELSE Accept(rests[Longest(Hits(rests))], i, Longest(Hits(rests)))

(* The items from k on that take exactly one character each: a literal or *)
(* a class without a quantifier. Nothing backtracks into them.             *)
IsOne(item) == item.kind = "rep" /\ item.min = 1 /\ item.max = 1
OnesFrom(re, k) ==
  CHOOSE n \in 1..(Len(re) - k + 1) :
    /\ \A j \in 0..(n - 1) : IsOne(re[k + j])
    /\ k + n <= Len(re) => ~IsOne(re[k + n])
Shifted(rest, i, n) ==
  IF rest.ok THEN [ok |-> TRUE, pos |-> [j \in 1..n |-> i + j] \o rest.pos]
  ELSE NoMatch

RECURSIVE MatchItems(_, _, _, _)
RECURSIVE Literal(_, _, _, _, _)
RECURSIVE Backtrack(_, _, _, _, _)
MatchItems(re, s, i, k) ==
  IF k > Len(re) THEN [ok |-> TRUE, pos |-> <<>>]
  ELSE IF re[k].kind # "rep"
  THEN (IF Asserted(re[k], s, i)
        THEN Pick([c \in {0} |-> MatchItems(re, s, i, k + 1)], i)
        ELSE NoMatch)
  ELSE IF IsOne(re[k])
  THEN (IF i <= Len(s) /\ s[i] \in re[k].cls
        THEN Literal(re, s, i, k, OnesFrom(re, k))
        ELSE NoMatch)
  ELSE Backtrack(re, s, i, k, Run(s, i, re[k].cls, re[k].max))
Literal(re, s, i, k, n) ==
  IF i + n - 1 <= Len(s) /\ \A j \in 0..(n - 1) : s[i + j] \in re[k + j].cls
  THEN Shifted(MatchItems(re, s, i + n, k + n), i, n)
  ELSE NoMatch
Backtrack(re, s, i, k, run) ==
  Pick([c \in re[k].min..run |-> MatchItems(re, s, i + c, k + 1)], i)

(* A pattern with alternatives, (?:a|b|c)..., is the sequence of its       *)
(* expansions; at a position they are tried in order.                      *)
RECURSIVE TryAlternatives(_, _, _, _)
RECURSIVE OrNext(_, _, _, _, _)
TryAlternatives(alts, s, i, a) ==
  IF a > Len(alts) THEN NoMatch
  ELSE OrNext(MatchItems(alts[a], s, i, 1), alts, s, i, a)
OrNext(m, alts, s, i, a) ==
  IF m.ok THEN m ELSE TryAlternatives(alts, s, i, a + 1)

(* RegExp.prototype.exec from position i: the leftmost match; pos[1] is    *)
(* its start and pos[k + 1] the position after item k.                     *)
Starts(alts, s, i) ==
  {j \in i..(Len(s) + 1) : TryAlternatives(alts, s, j, 1).ok}
Leftmost(starts) == CHOOSE j \in starts : \A h \in starts : j <= h
MatchAt(m, i) == [ok |-> TRUE, pos |-> <<i>> \o m.pos]
Found(starts, alts, s) ==
  IF starts = {} THEN NoMatch
  ELSE MatchAt(TryAlternatives(alts, s, Leftmost(starts), 1), Leftmost(starts))
SearchFrom(alts, s, i) == Found(Starts(alts, s, i), alts, s)

(* String.prototype.match without the g flag, and RegExp.prototype.test.   *)
Match(re, s) == SearchFrom(<<re>>, s, 1)
Test(re, s) == Match(re, s).ok

(* The text items a..b of a match cover, and the text of the item that is  *)
(* k items before the last one.                                            *)
Group(s, pos, a, b) == SubSeq(s, pos[a], pos[b + 1] - 1)
GroupFromEnd(s, pos, k) == SubSeq(s, pos[Len(pos) - k - 1], pos[Len(pos) - k] - 1)

(* lastIndex after a match (one further after an empty match).             *)
NextIndex(pos) ==
  IF pos[Len(pos)] = pos[1] THEN pos[1] + 1 ELSE pos[Len(pos)]

(* String.prototype.matchAll with the g flag: the matches left to right.   *)
RECURSIVE MatchAllFrom(_, _, _)
RECURSIVE Collect(_, _, _)
MatchAllFrom(alts, s, i) == Collect(SearchFrom(alts, s, i), alts, s)
Collect(m, alts, s) ==
  IF ~m.ok THEN <<>>
  ELSE <<m.pos>> \o MatchAllFrom(alts, s, NextIndex(m.pos))
MatchAll(re, s) == MatchAllFrom(<<re>>, s, 1)
MatchAllOf(alts, s) == MatchAllFrom(alts, s, 1)

----------------------------------------------------------------------------
(* updated/document_processor.js: normalizeDate                            *)

(* What the script engine's Date constructor makes of a string is not the  *)
(* same in every engine: rollover says that a date-only ISO string with a  *)
(* day up to 31 beyond the month's length is read as a date of the next    *)
(* month (V8) rather than rejected; legacy says whether the engine's       *)
(* fallback parser reads a string that is not in the ISO form.             *)
Engines == [rollover : BOOLEAN, legacy : BOOLEAN]

IsLeapYear(y) == (y % 4 = 0 /\ y % 100 # 0) \/ y % 400 = 0
DaysInMonth(y, m) ==
  CASE m = 2 -> IF IsLeapYear(y) THEN 29 ELSE 28
    [] m \in {4, 6, 9, 11} -> 30
    [] OTHER -> 31

(* YYYY-MM-DD, the date-only form of the Date Time String Format.          *)
IsIsoDate(s) ==
  /\ Len(s) = 10
  /\ s[5] = "-" /\ s[8] = "-"
  /\ \A i \in {1, 2, 3, 4, 6, 7, 9, 10} : s[i] \in Digit

IsoDateExists(engine, y, m, d) ==
  /\ m \in 1..12
  /\ d >= 1
  /\ d <= (IF engine.rollover THEN 31 ELSE DaysInMonth(y, m))

(* !isNaN(new Date(s).getTime())                                           *)
DateParses(engine, s) ==
  IF IsIsoDate(s)
  THEN IsoDateExists(engine, DigitsValue(SubSeq(s, 1, 4)),
                     DigitsValue(SubSeq(s, 6, 7)), DigitsValue(SubSeq(s, 9, 10)))
  ELSE engine.legacy

(* /\d{1,2}\/\d{1,2}\/\d{4}/ and /\d{1,2}-\d{1,2}-\d{4}/                   *)
MonthDayYear(sep) ==
  <<Rep(Digit, 1, 2), One({sep}), Rep(Digit, 1, 2), One({sep}),
    Rep(Digit, 4, 4)>>

(* String.prototype.padStart(2, "0")                                       *)
PadStart2(s) ==
  IF Len(s) = 0 THEN <<"0", "0">>
  ELSE IF Len(s) = 1 THEN <<"0">> \o s
  ELSE s

(* `${parts[2]}-${parts[0].padStart(2, "0")}-${parts[1].padStart(2, "0")}` *)
Reordered(parts) ==
  parts[3] \o <<"-">> \o PadStart2(parts[1]) \o <<"-">> \o PadStart2(parts[2])

Rewrite(dateString, normalized, sep) ==
  IF Test(MonthDayYear(sep), dateString)
  THEN Reordered(Split(dateString, sep))
  ELSE normalized

(* if (isNaN(date.getTime())) return dateString; return normalized;        *)
Validated(engine, dateString, normalized) ==
  IF DateParses(engine, normalized) THEN Str(normalized) ELSE Str(dateString)

normalizeDate(engine, dateString) ==
  IF dateString = <<>> THEN Null
  ELSE Validated(engine, dateString,
                 Rewrite(dateString, Rewrite(dateString, dateString, "/"),
                         "-"))

----------------------------------------------------------------------------
(* updated/document_processor.js: extractItineraryDataEnhanced             *)

sAuthorizedItinerary == <<"A", "U", "T", "H", "O", "R", "I", "Z", "E", "D",
  " ", "O", "F", "F", "I", "C", "I", "A", "L", " ", "I", "T", "I", "N",
  "E", "R", "A", "R", "Y">>
sItinerary == <<"I", "T", "I", "N", "E", "R", "A", "R", "Y">>
sTravelSchedule == <<"T", "R", "A", "V", "E", "L", " ", "S", "C", "H", "E",
  "D", "U", "L", "E">>

(* (?=\n\n|\n[A-Z]{3,}|$) under the i flag: a blank line, a line that      *)
(* starts with three letters, or the end of the text.                      *)
LookaheadEnd(s, p) ==
  IF p > Len(s) THEN TRUE
  ELSE s[p] = "\n" /\ (Run(s, p + 1, {"\n"}, 1) = 1 \/ Run(s, p + 1, Letter, 3) = 3)

(* ([\s\S]*?): the shortest text after which the lookahead holds.          *)
RECURSIVE SectionEnd(_, _)
SectionEnd(s, p) == IF LookaheadEnd(s, p) THEN p ELSE SectionEnd(s, p + 1)

SectionCaptured(m, s) ==
  IF m.ok
  THEN [ok |-> TRUE,
        v |-> SubSeq(s, m.pos[Len(m.pos)], SectionEnd(s, m.pos[Len(m.pos)]) - 1)]
  ELSE [ok |-> FALSE, v |-> <<>>]

(* text.match(/HEADER([\s\S]*?)(?=...)/i)                                  *)
SectionMatch(header, text) == SectionCaptured(Match(LitI(header), text), text)

(* The capture of the first section pattern that matches; no match and an  *)
(* empty capture are both falsy.                                           *)
FirstSection(a, b, c) ==
  IF a.ok THEN a.v ELSE IF b.ok THEN b.v ELSE c.v

itinerarySection(text) ==
  FirstSection(SectionMatch(sAuthorizedItinerary, text),
               SectionMatch(sItinerary, text),
               SectionMatch(sTravelSchedule, text))

(* /(\d{4}-\d{1,2}-\d{1,2})/g                                              *)
YearMonthDay ==
  <<Rep(Digit, 4, 4), One({"-"}), Rep(Digit, 1, 2), One({"-"}),
    Rep(Digit, 1, 2)>>

(* /([A-Za-z\s]+),\s*([A-Z]{2})\b/g and /([A-Za-z\s]+)\s+([A-Z]{2})\s/g    *)
CityCommaState ==
  <<Plus(Letter \cup Space), One({","}), Star(Space), Rep(Upper, 2, 2),
    Boundary>>
CitySpaceState ==
  <<Plus(Letter \cup Space), Plus(Space), Rep(Upper, 2, 2), One(Space)>>

(* The matches of the first pattern that has any.                          *)
FirstMatches(a, b, c) == IF a # <<>> THEN a ELSE IF b # <<>> THEN b ELSE c

(* dates = matches.map((m) => m[1])                                        *)
DateOf(section, pos) == Group(section, pos, 1, 5)
DatesFrom(section, matches) ==
  [k \in 1..Len(matches) |-> DateOf(section, matches[k])]
DatesIn(section) ==
  DatesFrom(section,
            FirstMatches(MatchAll(MonthDayYear("/"), section),
                         MatchAll(MonthDayYear("-"), section),
                         MatchAll(YearMonthDay, section)))

(* locations = matches.map((m) => ({city: m[1].trim(), state: m[2].trim()})) *)
LocationsFrom(section, matches, stateItem) ==
  [k \in 1..Len(matches) |->
     [city |-> Trim(Group(section, matches[k], 1, 1)),
      state |-> Trim(Group(section, matches[k], stateItem, stateItem))]]
LocationsOf(section, a, b) ==
  IF a # <<>> THEN LocationsFrom(section, a, 4)
  ELSE LocationsFrom(section, b, 3)
LocationsIn(section) ==
  LocationsOf(section, MatchAll(CityCommaState, section),
              MatchAll(CitySpaceState, section))


(* if (i < dates.length) item.date = normalizeDate(dates[i]);              *)
WithDate(item, engine, dates, i) ==
  IF i <= Len(dates) THEN Put(item, "date", normalizeDate(engine, dates[i]))
  ELSE item

PutLocation(item, location) ==
  Put(Put(item, "city", Str(location.city)), "state", Str(location.state))

(* Fault: a date beyond the last location gets no location.                *)
WithOwnLocation(item, locations, i) ==
  IF i <= Len(locations) THEN PutLocation(item, locations[i]) ELSE item

(* The i-th location, or the last known one when the dates outnumber the   *)
(* locations.                                                              *)
WithLocation(item, locations, i) ==
  IF i <= Len(locations) THEN PutLocation(item, locations[i])
  ELSE IF Len(locations) > 0 THEN PutLocation(item, locations[Len(locations)])
  ELSE item

(* if (item.city || item.date) itinerary.push(item)                        *)
IsStop(item) == Truthy(Get(item, "city")) \/ Truthy(Get(item, "date"))

Combine(engine, dates, locations) ==
  SelectSeq([i \in 1..Max(Len(dates), Len(locations)) |->
               WithLocation(WithDate(<<>>, engine, dates, i), locations, i)],
            IsStop)

sTravel == <<"t", "r", "a", "v", "e", "l">>
sTrip == <<"t", "r", "i", "p">>
sVisit == <<"v", "i", "s", "i", "t">>
sGo == <<"g", "o">>
sTo == <<"t", "o">>
sFrom == <<"f", "r", "o", "m">>
sDepart == <<"d", "e", "p", "a", "r", "t">>
sArrive == <<"a", "r", "r", "i", "v", "e">>
sReturn == <<"r", "e", "t", "u", "r", "n">>

(* ([A-Za-z\s]+),\s*([A-Z]{2}) under the i flag.                            *)
PlaceTail ==
  <<Plus(Letter \cup Space), One({","}), Star(Space), Rep(Letter, 2, 2)>>

(* /(?:travel|trip|visit|go)\s+to\s+([A-Za-z\s]+),\s*([A-Z]{2})/gi         *)
TravelTo ==
  [k \in 1..4 |->
     LitI(<<sTravel, sTrip, sVisit, sGo>>[k]) \o <<Plus(Space)>> \o LitI(sTo)
       \o <<Plus(Space)>> \o PlaceTail]
(* /(?:from|depart)\s+([A-Za-z\s]+),\s*([A-Z]{2})/gi                       *)
FromPlace ==
  [k \in 1..2 |-> LitI(<<sFrom, sDepart>>[k]) \o <<Plus(Space)>> \o PlaceTail]
(* /(?:arrive|return)\s+([A-Za-z\s]+),\s*([A-Z]{2})/gi                     *)
ArrivePlace ==
  [k \in 1..2 |-> LitI(<<sArrive, sReturn>>[k]) \o <<Plus(Space)>> \o PlaceTail]

PlacesFrom(text, matches) ==
  [k \in 1..Len(matches) |->
     [city |-> Str(Trim(GroupFromEnd(text, matches[k], 3))),
      state |-> Str(Trim(GroupFromEnd(text, matches[k], 0)))]]

(* locations.add(JSON.stringify(...)): a Set keeps the first occurrence.   *)
Contains(seq, x) == \E k \in 1..Len(seq) : seq[k] = x

RECURSIVE AddAll(_, _)
AddAll(set, places) ==
  IF places = <<>> THEN set
  ELSE AddAll(IF Contains(set, Head(places)) THEN set ELSE Append(set, Head(places)),
              Tail(places))

extractItineraryFromGeneralText(text) ==
  AddAll(AddAll(AddAll(<<>>, PlacesFrom(text, MatchAllOf(TravelTo, text))),
                PlacesFrom(text, MatchAllOf(FromPlace, text))),
         PlacesFrom(text, MatchAllOf(ArrivePlace, text)))

(* The function's locals next to its result; a text without a section, or  *)
(* with an empty one, goes to extractItineraryFromGeneralText.             *)
Combined(engine, section, dates, locations) ==
  [section |-> section, dates |-> dates, locations |-> locations,
   itinerary |-> Combine(engine, dates, locations)]

FromSection(engine, section, text) ==
  IF section = <<>>
  THEN [section |-> <<>>, dates |-> <<>>, locations |-> <<>>,
        itinerary |-> extractItineraryFromGeneralText(text)]
  ELSE Combined(engine, section, DatesIn(section), LocationsIn(section))

ItineraryRun(engine, text) == FromSection(engine, itinerarySection(text), text)

extractItineraryDataEnhanced(engine, text) == ItineraryRun(engine, text).itinerary

----------------------------------------------------------------------------
(* document_processor: extractGSAFormDataEnhanced                          *)

(* The tails shared by the patterns: the rest of the line after the      *)
(* label, and an amount with an optional dollar sign before it.           *)
RestOfLine == <<Star(Space \cup {":"}), Plus(NotNewline)>>
Amount ==
  <<Star(Space \cup {":"}), Maybe({"$"}), Plus(Digit \cup {","}), Maybe({"."}),
    Star(Digit)>>

(* A pattern of the table: its items, the items first..last of its group,  *)
(* and the deployments whose table holds it.                               *)
Pattern(re, first, last, impls) ==
  [re |-> re, first |-> first, last |-> last, impls |-> impls]

(* fieldExtractions, in the order of the object's keys. The GAS table has  *)
(* no vehicle pattern and no miscellaneous field.                          *)
fieldExtractions ==
  <<
    [field |-> "authorizationNumber",
     patterns |-> <<
        Pattern(LitI(<<"a", "u", "t", "h", "o", "r", "i", "z", "a",
          "t", "i", "o", "n">>) \o <<Plus(Space)>> \o LitI(<<"n", "u",
          "m", "b", "e", "r">>) \o RestOfLine, 22, 22, Impls),
        Pattern(LitI(<<"a", "u", "t", "h">>) \o <<Star(Space)>> \o
          LitI(<<"#">>) \o RestOfLine, 8, 8, Impls),
        Pattern(LitI(<<"a", "u", "t", "h", "o", "r", "i", "z", "a",
          "t", "i", "o", "n">>) \o <<Star(Space \cup {":"}),
          Plus(Letter \cup Digit \cup {"-", "/"})>>, 15, 15, Impls)>>],
    [field |-> "travelerName",
     patterns |-> <<
        Pattern(LitI(<<"t", "r", "a", "v", "e", "l", "e", "r">>) \o
          RestOfLine, 10, 10, Impls),
        Pattern(LitI(<<"e", "m", "p", "l", "o", "y", "e", "e">>) \o
          <<Plus(Space)>> \o LitI(<<"n", "a", "m", "e">>) \o
          RestOfLine, 15, 15, Impls),
        Pattern(LitI(<<"n", "a", "m", "e">>) \o <<Star(Space \cup
          {":"}), Plus(Letter \cup Space \cup {",", "."}),
          Ahead(Space)>>, 6, 6, Impls)>>],
    [field |-> "title",
     patterns |-> <<
        Pattern(LitI(<<"t", "i", "t", "l", "e">>) \o RestOfLine, 7, 7,
          Impls),
        Pattern(LitI(<<"p", "o", "s", "i", "t", "i", "o", "n">>) \o
          RestOfLine, 10, 10, Impls),
        Pattern(LitI(<<"j", "o", "b">>) \o <<Plus(Space)>> \o
          LitI(<<"t", "i", "t", "l", "e">>) \o RestOfLine, 11, 11,
          Impls)>>],
    [field |-> "vendorCode",
     patterns |-> <<
        Pattern(LitI(<<"p", "e", "g", "a", "s", "y", "s">>) \o
          <<Plus(Space)>> \o LitI(<<"v", "e", "n", "d", "o", "r">>) \o
          <<Plus(Space)>> \o LitI(<<"c", "o", "d", "e">>) \o
          <<Star(Space \cup {":"}), One({"e", "E"}), Rep(Digit, 8,
          9)>>, 21, 22, Impls),
        Pattern(LitI(<<"v", "e", "n", "d", "o", "r">>) \o
          <<Plus(Space)>> \o LitI(<<"c", "o", "d", "e">>) \o
          <<Star(Space \cup {":"}), One({"e", "E"}), Rep(Digit, 8,
          9)>>, 13, 14, Impls),
        Pattern(LitI(<<"e", "m", "p", "l", "o", "y", "e", "e">>) \o
          <<Plus(Space)>> \o LitI(<<"i", "d">>) \o <<Star(Space \cup
          {":"}), One({"e", "E"}), Rep(Digit, 8, 9)>>, 13, 14, Impls)>>],
    [field |-> "currentAddress",
     patterns |-> <<
        Pattern(LitI(<<"c", "u", "r", "r", "e", "n", "t">>) \o
          <<Plus(Space)>> \o LitI(<<"r", "e", "s", "i", "d", "e", "n",
          "c", "e">>) \o <<Plus(Space)>> \o LitI(<<"a", "d", "d", "r",
          "e", "s", "s">>) \o RestOfLine, 27, 27, Impls),
        Pattern(LitI(<<"a", "d", "d", "r", "e", "s", "s">>) \o
          RestOfLine, 9, 9, Impls),
        Pattern(LitI(<<"r", "e", "s", "i", "d", "e", "n", "c", "e">>)
          \o RestOfLine, 11, 11, Impls)>>],
    [field |-> "officeDivision",
     patterns |-> <<
        Pattern(LitI(<<"o", "f", "f", "i", "c", "e", "/", "s", "e",
          "r", "v", "i", "c", "e">>) \o <<Plus(Space)>> \o LitI(<<"a",
          "n", "d">>) \o <<Plus(Space)>> \o LitI(<<"d", "i", "v", "i",
          "s", "i", "o", "n">>) \o RestOfLine, 29, 29, Impls),
        Pattern(LitI(<<"o", "f", "f", "i", "c", "e">>) \o RestOfLine,
          8, 8, Impls),
        Pattern(LitI(<<"d", "i", "v", "i", "s", "i", "o", "n">>) \o
          RestOfLine, 10, 10, Impls)>>],
    [field |-> "dutyStation",
     patterns |-> <<
        Pattern(LitI(<<"o", "f", "f", "i", "c", "i", "a", "l">>) \o
          <<Plus(Space)>> \o LitI(<<"d", "u", "t", "y">>) \o
          <<Plus(Space)>> \o LitI(<<"s", "t", "a", "t", "i", "o",
          "n">>) \o RestOfLine, 23, 23, Impls),
        Pattern(LitI(<<"d", "u", "t", "y">>) \o <<Plus(Space)>> \o
          LitI(<<"s", "t", "a", "t", "i", "o", "n">>) \o RestOfLine,
          14, 14, Impls),
        Pattern(LitI(<<"w", "o", "r", "k">>) \o <<Plus(Space)>> \o
          LitI(<<"l", "o", "c", "a", "t", "i", "o", "n">>) \o
          RestOfLine, 15, 15, Impls)>>],
    [field |-> "contactNumber",
     patterns |-> <<
        Pattern(LitI(<<"c", "o", "n", "t", "a", "c", "t">>) \o
          <<Plus(Space)>> \o LitI(<<"t", "e", "l", "e", "p", "h", "o",
          "n", "e">>) \o <<Plus(Space)>> \o LitI(<<"n", "u", "m", "b",
          "e", "r">>) \o RestOfLine, 26, 26, Impls),
        Pattern(LitI(<<"p", "h", "o", "n", "e">>) \o RestOfLine, 7, 7,
          Impls),
        Pattern(LitI(<<"t", "e", "l", "e", "p", "h", "o", "n", "e">>)
          \o RestOfLine, 11, 11, Impls),
        Pattern(<<Maybe({"("}), Rep(Digit, 3, 3), Maybe({")"}),
          Maybe(Space \cup {"-", "."}), Rep(Digit, 3, 3), Maybe(Space
          \cup {"-", "."}), Rep(Digit, 4, 4)>>, 1, 7, Impls)>>],
    [field |-> "travelPurpose",
     patterns |-> <<
        Pattern(LitI(<<"t", "r", "a", "v", "e", "l">>) \o
          <<Plus(Space)>> \o LitI(<<"p", "u", "r", "p", "o", "s",
          "e">>) \o RestOfLine, 16, 16, Impls),
        Pattern(LitI(<<"p", "u", "r", "p", "o", "s", "e">>) \o
          RestOfLine, 9, 9, Impls),
        Pattern(LitI(<<"r", "e", "a", "s", "o", "n">>) \o
          <<Plus(Space)>> \o LitI(<<"f", "o", "r">>) \o
          <<Plus(Space)>> \o LitI(<<"t", "r", "a", "v", "e", "l">>) \o
          RestOfLine, 19, 19, Impls)>>],
    [field |-> "briefDescription",
     patterns |-> <<
        Pattern(LitI(<<"b", "r", "i", "e", "f">>) \o <<Plus(Space)>>
          \o LitI(<<"d", "e", "s", "c", "r", "i", "p", "t", "i", "o",
          "n">>) \o RestOfLine, 19, 19, Impls),
        Pattern(LitI(<<"d", "e", "s", "c", "r", "i", "p", "t", "i",
          "o", "n">>) \o RestOfLine, 13, 13, Impls),
        Pattern(LitI(<<"d", "e", "t", "a", "i", "l", "s">>) \o
          RestOfLine, 9, 9, Impls)>>],
    [field |-> "estimatedCost",
     patterns |-> <<
        Pattern(LitI(<<"e", "s", "t", "i", "m", "a", "t", "e", "d">>)
          \o <<Plus(Space)>> \o LitI(<<"c", "o", "s", "t">>) \o
          <<Star(Space \cup {":"})>> \o LitI(<<"t", "o", "t", "a",
          "l">>) \o Amount, 23, 25, Impls),
        Pattern(LitI(<<"t", "o", "t", "a", "l">>) \o <<Plus(Space)>>
          \o LitI(<<"c", "o", "s", "t">>) \o Amount, 13, 15, Impls),
        Pattern(LitI(<<"a", "m", "o", "u", "n", "t">>) \o Amount, 9,
          11, Impls)>>],
    [field |-> "perDiem",
     patterns |-> <<
        Pattern(LitI(<<"p", "e", "r">>) \o <<Plus(Space)>> \o
          LitI(<<"d", "i", "e", "m">>) \o Amount, 11, 13, Impls),
        Pattern(LitI(<<"m", "e", "a", "l", "s">>) \o <<Plus(Space)>>
          \o LitI(<<"a", "n", "d">>) \o <<Plus(Space)>> \o LitI(<<"i",
          "n", "c", "i", "d", "e", "n", "t", "a", "l", "s">>) \o
          Amount, 24, 26, Impls)>>],
    [field |-> "airRail",
     patterns |-> <<
        Pattern(LitI(<<"a", "i", "r", "/", "r", "a", "i", "l">>) \o
          Amount, 11, 13, Impls),
        Pattern(LitI(<<"t", "r", "a", "n", "s", "p", "o", "r", "t",
          "a", "t", "i", "o", "n">>) \o Amount, 17, 19, Impls),
        Pattern(LitI(<<"a", "i", "r", "f", "a", "r", "e">>) \o Amount,
          10, 12, Impls)>>],
    [field |-> "lodging",
     patterns |-> <<
        Pattern(LitI(<<"l", "o", "d", "g", "i", "n", "g">>) \o Amount,
          10, 12, Impls),
        Pattern(LitI(<<"h", "o", "t", "e", "l">>) \o Amount, 8, 10,
          Impls),
        Pattern(LitI(<<"a", "c", "c", "o", "m", "m", "o", "d", "a",
          "t", "i", "o", "n">>) \o Amount, 16, 18, Impls)>>],
    [field |-> "rentalCar",
     patterns |-> <<
        Pattern(LitI(<<"r", "e", "n", "t", "a", "l">>) \o
          <<Plus(Space)>> \o LitI(<<"c", "a", "r">>) \o Amount, 13,
          15, Impls),
        Pattern(LitI(<<"c", "a", "r">>) \o <<Plus(Space)>> \o
          LitI(<<"r", "e", "n", "t", "a", "l">>) \o Amount, 13, 15,
          Impls),
        Pattern(LitI(<<"v", "e", "h", "i", "c", "l", "e">>) \o Amount,
          10, 12, {"updated"})>>],
    [field |-> "miscellaneous",
     patterns |-> <<
        Pattern(LitI(<<"m", "i", "s", "c", "e", "l", "l", "a", "n",
          "e", "o", "u", "s">>) \o Amount, 16, 18, {"updated"}),
        Pattern(LitI(<<"o", "t", "h", "e", "r">>) \o Amount, 8, 10,
          {"updated"}),
        Pattern(LitI(<<"m", "i", "s", "c">>) \o Amount, 7, 9,
          {"updated"})>>]
  >>

(* match && match[1] (in updated also && match[1].trim())                  *)
Captures(impl, capture) ==
  capture # <<>> /\ (impl = "updated" => Trim(capture) # <<>>)

RECURSIVE FirstCapture(_, _, _, _)
RECURSIVE Tried(_, _, _, _, _)
FirstCapture(impl, text, patterns, k) ==
  IF k > Len(patterns) THEN [ok |-> FALSE, v |-> <<>>]
  ELSE IF impl \notin patterns[k].impls
  THEN FirstCapture(impl, text, patterns, k + 1)
  ELSE Tried(impl, text, patterns, k, Match(patterns[k].re, text))
Tried(impl, text, patterns, k, m) ==
  IF m.ok /\ Captures(impl, Group(text, m.pos, patterns[k].first,
                                   patterns[k].last))
  THEN [ok |-> TRUE,
        v |-> Trim(Group(text, m.pos, patterns[k].first, patterns[k].last))]
  ELSE FirstCapture(impl, text, patterns, k + 1)

(* for (const [field, patterns] of Object.entries(fieldExtractions)): the  *)
(* fields whose list has a pattern that captures, each with the trimmed    *)
(* group; captures[k] is what the list of field k gave.                    *)
Captured(captures) == {k \in DOMAIN captures : captures[k].ok}
Stored(captures) ==
  [field \in {fieldExtractions[k].field : k \in Captured(captures)} |->
     Str(captures[CHOOSE k \in Captured(captures) :
                    fieldExtractions[k].field = field].v)]
ExtractFields(impl, text) ==
  Stored([k \in 1..Len(fieldExtractions) |->
            FirstCapture(impl, text, fieldExtractions[k].patterns, 1)])

(* utils.gs extractItineraryData on the text: the section ends before a    *)
(* blank line or a line that starts with a letter, and without either      *)
(* there is no section.                                                    *)
SectionStop(s, p) ==
  s[p] = "\n" /\ (Run(s, p + 1, {"\n"}, 1) = 1 \/ Run(s, p + 1, Letter, 1) = 1)
HasSectionStop(s, e) == \E p \in e..Len(s) : SectionStop(s, p)
FirstSectionStop(s, e) ==
  CHOOSE p \in e..Len(s) :
    SectionStop(s, p) /\ \A r \in e..(p - 1) : ~SectionStop(s, r)

CityState ==
  <<Plus(Letter \cup Space), One({","}), Star(Space), Rep(Upper, 2, 2)>>

RawLocations(section, matches) ==
  [k \in 1..Len(matches) |->
     <<Group(section, matches[k], 1, 1), Group(section, matches[k], 4, 4)>>]

ItineraryOfSection(section) ==
  extractItineraryData(
    [dates |-> DatesFrom(section, MatchAll(MonthDayYear("/"), section)),
     locations |-> RawLocations(section, MatchAll(CityState, section))])

ItineraryAfter(text, m) ==
  IF m.ok /\ HasSectionStop(text, m.pos[Len(m.pos)])
  THEN ItineraryOfSection(SubSeq(text, m.pos[Len(m.pos)],
                                 FirstSectionStop(text, m.pos[Len(m.pos)]) - 1))
  ELSE <<>>

extractItineraryDataOfText(text) ==
  ItineraryAfter(text, Match(LitI(sAuthorizedItinerary), text))

(* extracted.itinerary = ...                                               *)
WithItinerary(impl, engine, text, extracted) ==
  Put(extracted, "itinerary",
      Arr(IF impl = "updated" THEN extractItineraryDataEnhanced(engine, text)
          ELSE extractItineraryDataOfText(text)))

numericFields(impl) ==
  IF impl = "updated"
  THEN <<"estimatedCost", "perDiem", "airRail", "lodging", "rentalCar",
         "miscellaneous">>
  ELSE <<"estimatedCost", "perDiem", "airRail", "lodging", "rentalCar">>

(* updated stores the number when it is not NaN and otherwise leaves the   *)
(* captured string; GAS stores whatever parseFloat returns.                *)
WithNumber(impl, captured, n) ==
  IF impl = "gas" \/ n.t # "nan" THEN n ELSE captured

(* parseFloat(extracted[field].replace(/[,$]/g, "")), in GAS replace(/,/g) *)
NumericValue(impl, captured) ==
  parseFloat(Str(Strip(captured,
                       IF impl = "updated" THEN {",", "$"} ELSE {","})))

(* numericFields.forEach: a field that holds a truthy capture is parsed.   *)
ParseNumericFields(impl, extracted, fields) ==
  [field \in DOMAIN extracted |->
     IF field \in CharsOf(fields) /\ Truthy(extracted[field])
     THEN WithNumber(impl, extracted[field],
                     NumericValue(impl, extracted[field].v))
     ELSE extracted[field]]

sDeparture == <<"d", "e", "p", "a", "r", "t", "u", "r", "e">>
sLeave == <<"l", "e", "a", "v", "e">>
sArriveBack == <<"a", "r", "r", "i", "v", "e", " ", "b", "a", "c", "k">>
sEnd == <<"e", "n", "d">>

(* new RegExp(`${keyword}[:\\s]*([\\d\\/\\-]+)`, "i")                       *)
DateAfter(keyword) ==
  LitI(keyword) \o <<Star(Space \cup {":"}), Plus(Digit \cup {"/", "-"})>>

(* extractDate: the date after the first keyword that is found.            *)
RECURSIVE extractDate(_, _, _)
RECURSIVE DateFound(_, _, _, _)
extractDate(engine, text, keywords) ==
  IF keywords = <<>> THEN Null
  ELSE DateFound(engine, text, keywords,
                 Match(DateAfter(Head(keywords)), text))
DateFound(engine, text, keywords, m) ==
  IF m.ok
  THEN normalizeDate(engine, Group(text, m.pos, Len(m.pos) - 1, Len(m.pos) - 1))
  ELSE extractDate(engine, text, Tail(keywords))

(* updated only: departureDate and returnDate.                             *)
WithDates(impl, engine, text, extracted) ==
  IF impl = "updated"
  THEN Put(Put(extracted, "departureDate",
               extractDate(engine, text, <<sDeparture, sDepart, sLeave>>)),
           "returnDate",
           extractDate(engine, text, <<sReturn, sArriveBack, sEnd>>))
  ELSE extracted

extractGSAFormDataEnhanced(impl, engine, text) ==
  IF text = <<>> THEN <<>>
  ELSE WithDates(impl, engine, text,
         ParseNumericFields(impl,
           WithItinerary(impl, engine, text, ExtractFields(impl, text)),
           numericFields(impl)))


----------------------------------------------------------------------------
(* cleanExtractedText: updated/document_processor.js 224-243 and           *)
(* GAS/document_processor.gs 151-153.                                      *)

(* String.prototype.replace with the g flag and a constant replacement:    *)
(* the text between the matches is kept.                                   *)
RECURSIVE Replaced(_, _, _, _)
Replaced(s, matches, from, by) ==
  IF matches = <<>> THEN SubSeq(s, from, Len(s))
  ELSE SubSeq(s, from, Head(matches)[1] - 1) \o by
         \o Replaced(s, Tail(matches), Head(matches)[Len(Head(matches))], by)

(* None of the patterns below matches the empty string.                   *)
ReplaceAll(re, s, by) ==
  IF s = <<>> THEN s ELSE Replaced(s, MatchAll(re, s), 1, by)

(* The characters a text is made of, and [\w\s\$\.\,\(\)\-\:\/\&\#].       *)
TextChars == AnyChar \cup {"@", "%", "!", "*"}
AllowListed == WordChar \cup Space \cup {"$", ".", ",", "(", ")", "-", ":", "/", "&", "#"}

(* /\s+/g -> " " *)
NormalizeWhitespace(s) == ReplaceAll(<<Plus(Space)>>, s, <<" ">>)

(* /\n\s*\n/g -> "\n" *)
RemoveExtraLineBreaks(s) == ReplaceAll(<<One({"\n"}), Star(Space), One({"\n"})>>, s, <<"\n">>)

(* /[^\w\s\$\.\,\(\)\-\:\/\&\#]/g -> "" *)
RemoveArtifacts(s) == ReplaceAll(<<One(TextChars \ AllowListed)>>, s, <<>>)

(* /\$\s+/g -> "$" *)
NormalizeCurrency(s) == ReplaceAll(<<One({"$"}), Plus(Space)>>, s, <<"$">>)

(* /[Oo](?=\d)/g -> "0", /[Il](?=\d)/g -> "1", /[Ss](?=\d)/g -> "5" *)
FixDigits(s) ==
  ReplaceAll(<<One({"S", "s"}), Before(Digit)>>,
             ReplaceAll(<<One({"I", "l"}), Before(Digit)>>,
                        ReplaceAll(<<One({"O", "o"}), Before(Digit)>>, s, <<"0">>),
                        <<"1">>),
             <<"5">>)

(* /\r/g -> "" and /\n{2,}/g -> "\n" *)
RemoveReturns(s) == ReplaceAll(<<One({"\r"})>>, s, <<>>)
CollapseLineBreaks(s) == ReplaceAll(<<Rep({"\n"}, 2, -1)>>, s, <<"\n">>)

cleanExtractedText(impl, text) ==
  IF impl = "updated"
  THEN (IF text = <<>> THEN <<>>
        ELSE Trim(FixDigits(NormalizeCurrency(RemoveArtifacts(
               RemoveExtraLineBreaks(NormalizeWhitespace(text)))))))
  ELSE Trim(CollapseLineBreaks(RemoveReturns(text)))
----------------------------------------------------------------------------
(* Bulk processing of CSV records: processBulkRecords in                   *)
(* updated/tar_build/client.js and aggregateByTarId / validateCsvFile in   *)
(* GAS/main.gs.  A record maps column names to strings.                     *)

(* x || 0 *)
OrZero(x) == IF Truthy(x) THEN x ELSE Num(0)

(* x || '' *)
OrEmpty(x) == IF Truthy(x) THEN x ELSE Str(<<>>)

(* const id = rec['TAR ID'] || ''; the property key is the string itself.  *)
TarIdOf(rec) == ToStr(OrEmpty(Get(rec, "TAR ID")))

(* if (!grouped[id]) grouped[id] = []; grouped[id].push(rec);  keys holds  *)
(* the property names in the order of their creation.                      *)
PushRecord(grouped, id, rec) ==
  IF Contains(grouped.keys, id)
  THEN [grouped EXCEPT !.rows[id] = Append(@, rec)]
  ELSE [keys |-> Append(grouped.keys, id),
        rows |-> Put(grouped.rows, id, <<rec>>)]

RECURSIVE GroupFrom(_, _, _)
GroupFrom(records, i, grouped) ==
  IF i > Len(records) THEN grouped
  ELSE GroupFrom(records, i + 1,
                 IF TarIdOf(records[i]) = <<>> THEN grouped
                 ELSE PushRecord(grouped, TarIdOf(records[i]), records[i]))

GroupByTarId(records) == GroupFrom(records, 1, [keys |-> <<>>, rows |-> <<>>])

(* A property name that is an array index: the canonical decimal form of   *)
(* an integer below 2^32 - 1 (every such string of up to nine digits; the  *)
(* inputs have no longer ones).                                            *)
IsArrayIndex(key) ==
  /\ key # <<>>
  /\ AllDigits(key)
  /\ Len(key) = 1 \/ key[1] # "0"
  /\ Len(key) < 10

IsNameKey(key) == ~IsArrayIndex(key)

RECURSIVE InsertIndex(_, _)
InsertIndex(sorted, key) ==
  IF sorted = <<>> THEN <<key>>
  ELSE IF DigitsValue(key) < DigitsValue(Head(sorted)) THEN <<key>> \o sorted
  ELSE <<Head(sorted)>> \o InsertIndex(Tail(sorted), key)

RECURSIVE AscendingIndices(_)
AscendingIndices(keys) ==
  IF keys = <<>> THEN <<>>
  ELSE InsertIndex(AscendingIndices(Tail(keys)), Head(keys))

(* Object.keys of an ordinary object: the array-index names in ascending   *)
(* numeric order, then the other names in the order of their creation.     *)
ObjectKeys(created) ==
  AscendingIndices(SelectSeq(created, IsArrayIndex))
    \o SelectSeq(created, IsNameKey)

(* The keys in the order of their creation.                                *)
CreationOrder(created) == created

(* r[column] && r[column].trim().length > 0 *)
NonBlank(r, column) ==
  /\ Truthy(Get(r, column))
  /\ Trim(Get(r, column).v) # <<>>

FirstIndex(recs, Holds(_)) ==
  CHOOSE i \in 1..Len(recs) : Holds(recs[i]) /\ \A j \in 1..(i - 1) : ~Holds(recs[j])

(* Array.prototype.find: the first element that passes, else undefined.    *)
Find(recs, Holds(_)) ==
  IF \E i \in 1..Len(recs) : Holds(recs[i])
  THEN [t |-> "obj", v |-> recs[FirstIndex(recs, Holds)]]
  ELSE Undef

HasDestination(r) == NonBlank(r, "Destination (City, State, Country)")
HasPurpose(r) == NonBlank(r, "Travel Purpose")
HasComments(r) == NonBlank(r, "Comments")

IsPositive(n) == n.t = "inf" \/ (n.t = "num" /\ n.v[1] > 0)

HasEstimate(r) == IsPositive(parseFloat(Get(r, "Total Travel Estimate")))

(* if (destRec) agg[...] = destRec[...] *)
WithDestination(agg, destRec) ==
  IF destRec.t = "obj"
  THEN Put(agg, "Destination (City, State, Country)",
           Get(destRec.v, "Destination (City, State, Country)"))
  ELSE agg

(* purposeRec ? purposeRec['Travel Purpose']                               *)
(*            : (commentRec ? commentRec['Comments'] : '')                 *)
PurposeOf(purposeRec, commentRec) ==
  IF purposeRec.t = "obj" THEN Get(purposeRec.v, "Travel Purpose")
  ELSE IF commentRec.t = "obj" THEN Get(commentRec.v, "Comments")
  ELSE Str(<<>>)

(* const baseActual = parseFloat(base['Total Actual Cost']) || 0 *)
baseActual(base) == OrZero(parseFloat(Get(base, "Total Actual Cost")))

RECURSIVE CostFrom(_, _, _)
CostFrom(recs, i, sum) ==
  IF i > Len(recs) THEN sum
  ELSE CostFrom(recs, i + 1,
         NumR(RAdd(sum.v, OrZero(parseFloat(Get(recs[i], "Cost Type Value"))).v)))

(* recs.reduce((sum, r) => sum + (parseFloat(r['Cost Type Value']) || 0), 0) *)
sumCost(recs) == CostFrom(recs, 1, Num(0))

(* The first row of the group, in row order, whose explicit total is not   *)
(* zero; the base row when there is none.                                  *)
RECURSIVE FirstExplicitFrom(_, _)
FirstExplicitFrom(recs, i) ==
  IF i > Len(recs) THEN recs[1]
  ELSE IF Truthy(baseActual(recs[i])) THEN recs[i]
  ELSE FirstExplicitFrom(recs, i + 1)

FirstExplicit(recs) == FirstExplicitFrom(recs, 1)

(* const base = recs[0] *)
BaseRecord(recs) == recs[1]

(* const totalActual = baseActual || sumCost *)
totalActual(recs) ==
  IF Truthy(baseActual(BaseRecord(recs))) THEN baseActual(BaseRecord(recs))
  ELSE sumCost(recs)

(* agg['Total Actual Cost'] = totalActual ? totalActual.toString() : '0' *)
TotalActualCost(recs) ==
  IF Truthy(totalActual(recs)) THEN Str(ToStr(totalActual(recs)))
  ELSE Str(<<"0">>)

(* estRec ? estRec['Total Travel Estimate']                                *)
(*        : (base['Total Travel Estimate'] || '')                          *)
EstimateOf(estRec, base) ==
  IF estRec.t = "obj" THEN Get(estRec.v, "Total Travel Estimate")
  ELSE OrEmpty(Get(base, "Total Travel Estimate"))

(* One aggregated record: a copy of the group's first row with the         *)
(* destination, purpose, total and estimate replaced.  The records carry   *)
(* no 'Departure Date', 'Date Submitted' or 'Return Date' column, so       *)
(* startDate and endDate stay null and the date columns are not assigned.  *)
Aggregate(recs) ==
  Put(Put(Put(WithDestination(recs[1], Find(recs, HasDestination)),
              "Travel Purpose",
              PurposeOf(Find(recs, HasPurpose), Find(recs, HasComments))),
          "Total Actual Cost", TotalActualCost(recs)),
      "Total Travel Estimate", EstimateOf(Find(recs, HasEstimate), recs[1]))

AggregateKeys(grouped, keys) == [k \in 1..Len(keys) |-> Aggregate(grouped.rows[keys[k]])]

(* Object.keys(grouped).map(...) in processBulkRecords; the for...of over  *)
(* Object.keys(grouped) in aggregateByTarId.                               *)
AggregateGroups(grouped) == AggregateKeys(grouped, ObjectKeys(grouped.keys))

aggregateByTarId(records) == AggregateGroups(GroupByTarId(records))

(* tarId: record['TAR ID'] || '' in mapRecordToTarData and in               *)
(* mapAggregatedRecord.                                                    *)
TarIdOfRow(agg) == ToStr(OrEmpty(Get(agg, "TAR ID")))
----------------------------------------------------------------------------
(* The requests and environments the model submits.                        *)

sAnn == <<"A", "n", "n">>
sBob == <<"B", "o", "b">>
sMtg == <<"M", "t", "g">>
sBlank == <<" ", " ">>
sWashington == <<"W", "a", "s", "h", "i", "n", "g", "t", "o", "n">>
sDC == <<"D", "C">>
sBoMa == <<"B", "o", ",", " ", "m", "a">>
sBo == <<"B", "o">>
sMA == <<"M", "A">>
sPhone == <<"5", "5", "5", "1", "2", "3", "4", "5", "6", "7">>
sPhoneParens == <<"(", "5", "5", "5", ")", " ", "1", "2", "3", "-", "4", "5", "6", "7">>
sPhoneShort == <<"1", "2", "3">>
sPhoneZero == <<"0", "1", "2", "3", "4", "5", "6">>
sPhoneBad == <<"c", "a", "l", "l", " ", "m", "e">>
sVendor == <<"E", "1", "2", "3", "4", "5", "6", "7", "8">>
sVendorBad == <<"X", "1">>
sB64 == <<"J", "V", "B", "E", "R", "i", "0", "=">>
sAbc == <<"a", "b", "c">>
s3 == <<"3", " ">>
s229 == <<"2", "2", "9">>
s79 == <<"7", "9">>
s250 == <<"2", "5", "0">>
s20 == <<"2", "0">>
s30 == <<"3", "0">>
s74 == <<"7", "4">>
sRange == <<"1", "3", "0", "-", "1", "5", "0">>
sDate1 == <<"5", "/", "1", "/", "2", "0", "2", "5">>
sDate2 == <<"5", "/", "2", "/", "2", "0", "2", "5">>
sCost == <<"1", ",", "0", "0", "0", ".", "5", "0">>
sCommas == <<",", ",">>

Obj(r) == [t |-> "obj", v |-> r]

(* fields, optionally present: Opt(k, vals) is the set of the objects that *)
(* either lack k or hold one of vals under k.                              *)
With(objs, k, vals) == {Put(o, k, x) : o \in objs, x \in vals}
Opt(objs, k, vals) == objs \cup With(objs, k, vals)

(* Answers of the rate source.                                             *)
AllMonths(val) == [m \in {Months[i] : i \in 1..12} |-> val]
rate250 == Put(AllMonths(Str(s250)), "Meals", Str(s79))
rateLow == Put(AllMonths(Str(s30)), "Meals", Str(s20))
rateRange ==
  [m \in {"Meals"} \cup {Months[i] : i \in 1..12} |->
     CASE m = "Meals" -> Str(s74)
       [] m \in {"Jan", "Feb", "Mar"} -> Num(151)
       [] m = "Dec" -> Null
       [] OTHER -> Str(sRange)]
rateBare == [m \in {"Meals"} |-> Str(sAbc)]

Absent(kind) == [kind |-> kind, rate |-> <<>>]
Ok(rate) == [kind |-> "ok", rate |-> rate]
AbsentResponses ==
  {Absent("neterr"), Absent("http"), Absent("badjson"), Absent("empty")}
OkResponses == {Ok(rate250), Ok(rateLow), Ok(rateRange), Ok(rateBare)}
Responses == AbsentResponses \cup OkResponses

BaseEnv ==
  [text |-> Null, responses |-> <<Ok(rate250), Ok(rate250)>>, logOk |-> TRUE,
   logThrows |-> "getProperty"]

(* A complete manual request: Washington, DC, 3 days, 1000 claimed.        *)
BaseData ==
  [travelerName |-> Str(sAnn), travelPurpose |-> Str(sMtg),
   contactNumber |-> Str(sPhone), city |-> Str(sWashington),
   state |-> Str(sDC), duration |-> Num(3), totalCost |-> Num(1000)]

Without(o, ks) == [k \in (DOMAIN o) \ ks |-> o[k]]

(* Field-check family: names and aliases, phone and vendor code,           *)
(* estimated cost.                                                         *)
NameData ==
  Opt(Opt(Opt(Opt({Without(BaseData, {"travelerName", "travelPurpose"})},
                  "travelerName", {Str(sAnn), Str(sBlank), Null}),
              "traveler", {Str(sBob)}),
          "travelPurpose", {Str(sMtg)}),
      "purpose", {Str(sMtg)})
PhoneData ==
  Opt(Opt(Opt({Without(BaseData, {"contactNumber"})},
              "contactNumber",
              {Str(sPhoneParens), Str(sPhoneShort), Str(sPhoneZero),
               Str(sPhoneBad), Num(1234567)}),
          "poc", {Str(sBob)}),
      "vendorCode", {Str(sVendor), Str(sVendorBad)})
EstimateData ==
  Opt(With({BaseData}, "totalCost", {Num(1000), Num(0), Num(-5)}),
      "estimatedCost",
      {Num(500), Num(0), Num(-5), Str(sAbc), Str(<<>>), Str(s229)})
FieldRequests ==
  {[data |-> Obj(d), env |-> BaseEnv] :
     d \in NameData \cup PhoneData \cup EstimateData}

(* Cost family, duration mode.                                             *)
Durations == {Num(3), Str(s3), Num(-1), Num(0), Str(sAbc)}
TotalCosts ==
  {Num(1000), Num(987), Num(239), Num(240), Num(58), Num(-42), Num(0),
   Str(s229)}
CostBase == Put(Without(BaseData, {"duration", "totalCost"}),
                "estimatedCost", Num(500))
DutyStationBase ==
  Put(Without(CostBase, {"city", "state"}), "dutyStation", Str(sBoMa))
DurationData ==
  With(Opt({CostBase, DutyStationBase}, "duration", Durations),
       "totalCost", TotalCosts)
DurationRequests ==
  {[data |-> Obj(d),
    env |-> [BaseEnv EXCEPT !.responses = <<r, Ok(rate250)>>]] :
     d \in DurationData, r \in Responses}

(* Cost family, itinerary mode: one or two stops; a stop may lack its      *)
(* city.                                                                   *)
Stop(date, city, state) ==
  [date |-> Str(date), city |-> Str(city), state |-> Str(state)]
Itineraries ==
  {<<Stop(sDate1, sWashington, sDC)>>,
   <<Stop(sDate1, sBo, sMA), Stop(sDate2, sWashington, sDC)>>,
   <<Stop(sDate1, sBo, sMA), Stop(sDate2, <<>>, sDC)>>}
ItineraryData ==
  With(With(Opt({CostBase}, "duration", {Num(3)}),
            "totalCost", TotalCosts),
       "itinerary", {Arr(i) : i \in Itineraries})
ItineraryRequests ==
  {[data |-> Obj(d), env |-> [BaseEnv EXCEPT !.responses = <<r1, r2>>]] :
     d \in ItineraryData, r1 \in Responses,
     r2 \in {Absent("neterr"), Ok(rateLow)}}

(* Document family: a request with document bytes, and what the text       *)
(* extraction makes of them.                                               *)
Texts ==
  {Null, Str(<<>>),
   [t |-> "text",
    v |-> [captures |-> [travelerName |-> sBob, estimatedCost |-> sCost,
                         dutyStation |-> sBoMa],
           dates |-> <<sDate1, sDate2>>,
           locations |-> <<<<sBo, sMA>>>>]],
   [t |-> "text",
    v |-> [captures |-> [travelerName |-> sBlank, contactNumber |-> sPhoneShort,
                         perDiem |-> sCommas, travelPurpose |-> sMtg],
           dates |-> <<>>,
           locations |-> <<>>]]}
DocumentData ==
  Opt(Opt({BaseData,
           Without(BaseData, {"travelerName", "city", "state"}),
           Put(BaseData, "travelerName", Str(<<>>)),
           Put(Without(BaseData, {"contactNumber"}), "itinerary", Arr(<<>>))},
          "pdfContent", {Str(sB64), Null}),
      "estimatedCost", {Num(500)})
DocumentRequests ==
  {[data |-> Obj(d),
    env |-> [BaseEnv EXCEPT !.text = t, !.responses = <<r, Ok(rateLow)>>]] :
     d \in DocumentData, t \in Texts,
     r \in {Absent("http"), Ok(rate250)}}

(* Requests that make the handler throw, and runs whose logging fails.     *)
ThrowingData ==
  {Undef, Null,
   Obj(Put(Without(BaseData, {"city"}), "dutyStation", Num(7))),
   Obj(Put(BaseData, "itinerary", Str(sAbc))),
   Obj(Put(BaseData, "itinerary", Num(7)))}
ThrowingRequests == {[data |-> d, env |-> BaseEnv] : d \in ThrowingData}
UnloggedRequests ==
  {[data |-> Obj(d), env |-> [BaseEnv EXCEPT !.logOk = FALSE,
                                             !.logThrows = site,
                                             !.responses = <<r, r>>]] :
     d \in With({BaseData}, "totalCost", {Num(1000), Num(987)}),
     r \in {Absent("empty"), Ok(rate250)},
     site \in LogThrowSites}

Requests ==
  FieldRequests \cup DurationRequests \cup ItineraryRequests
    \cup DocumentRequests \cup ThrowingRequests \cup UnloggedRequests

(* Runs of updated under Node.js without an HTTP transport, in duration    *)
(* mode and over two stops.                                                *)
TransportlessRequests ==
  {[data |-> Obj(d),
    env |-> [BaseEnv EXCEPT !.responses = <<Absent("none"), Absent("none")>>]] :
     d \in {BaseData,
            Put(BaseData, "itinerary",
                Arr(<<Stop(sDate1, sBo, sMA), Stop(sDate2, sWashington, sDC)>>))}}

(* The requests a deployment can meet: GAS runs in Apps Script only.       *)
RequestsOf(impl) ==
  IF impl = "updated" THEN Requests \cup TransportlessRequests ELSE Requests

----------------------------------------------------------------------------
(* The state machine: a client calls the server functions of one           *)
(* deployment; a call to validateTarWithPerDiem is in flight, handled, and *)
(* its result delivered.                                                   *)

VARIABLES
  impl,    \* the deployment: "updated" or "gas"
  sheet,   \* the validation log sheet of the deployment
  call,    \* "idle", "pending" (request sent), "returned" (result back)
  req,     \* the request in flight: [data, env]
  res,     \* the result of the handled request, with the trace of the run
  args,    \* the arguments of the function applied on its own
  out      \* what that function returned

vars == <<impl, sheet, call, req, res, args, out>>

(* Data rows the log sheet may hold before the model stops submitting.     *)
MaxLogRows == 2

NoReq == [data |-> Undef, env |-> BaseEnv]
NoRes == [SystemError("", <<>>, <<>>, <<>>, NoSheet) EXCEPT
            !.outcome = "NONE", !.errors = <<>>]
NoArgs == <<>>
NoOut == [returned |-> FALSE]

Init ==
  /\ impl \in Impls
  /\ sheet = NoSheet
  /\ call = "idle"
  /\ req = NoReq
  /\ res = NoRes
  /\ args = NoArgs
  /\ out = NoOut

(* google.script.run.validateTarWithPerDiem(data)                          *)
Submit ==
  /\ call = "idle"
  /\ Len(sheet.rows) <= MaxLogRows
  /\ \E r \in RequestsOf(impl) : req' = r
  /\ call' = "pending"
  /\ UNCHANGED <<impl, sheet, res, args, out>>

(* The server runs the handler to its return.                              *)
Validate ==
  /\ call = "pending"
  /\ res' = validateTarWithPerDiem(impl, req.data, req.env, sheet)
  /\ sheet' = res'.sheet
  /\ call' = "returned"
  /\ UNCHANGED <<impl, req, args, out>>

(* The success handler consumes the result.                                *)
Return ==
  /\ call = "returned"
  /\ call' = "idle"
  /\ req' = NoReq
  /\ res' = NoRes
  /\ UNCHANGED <<impl, sheet, args, out>>

(* google.script.run.clearValidationLogs()                                 *)
ClearLogs ==
  /\ call = "idle"
  /\ \E site \in ClearThrowSites : sheet' = clearValidationLogs(sheet, site)
  /\ UNCHANGED <<impl, call, req, res, args, out>>

Next == Submit \/ Validate \/ Return \/ ClearLogs

Spec == Init /\ [][Next]_vars

----------------------------------------------------------------------------
(* average applied on its own: the caller builds an array of monthly       *)
(* values entry by entry and applies the function to it. The copies of     *)
(* average in utils.js and utils.gs differ in syntax only.                 *)

(* Entries an array holds before the model stops extending it.             *)
MaxValues == 3

sRangeSpaced == <<"1", "3", "0", " ", "-", " ", "1", "5", "1">>

(* What a month of a rate object may hold.                                 *)
MonthlyValues ==
  {Undef, Null, Num(151), NumR(Rat(159, 2)), Str(s250), Str(sRange),
   Str(sRangeSpaced), Str(sAbc), Str(<<>>)}

InitAverage ==
  /\ impl = "updated"
  /\ sheet = NoSheet
  /\ call = "idle"
  /\ req = NoReq
  /\ res = NoRes
  /\ args = <<>>
  /\ out = NoOut

(* values.push(v)                                                          *)
PushValue ==
  /\ Len(args) < MaxValues
  /\ \E v \in MonthlyValues : args' = Append(args, v)
  /\ out' = NoOut
  /\ UNCHANGED <<impl, sheet, call, req, res>>

(* average(values)                                                         *)
CallAverage ==
  /\ ~out.returned
  /\ out' = [returned |-> TRUE, value |-> average(args)]
  /\ UNCHANGED <<impl, sheet, call, req, res, args>>

NextAverage == PushValue \/ CallAverage

SpecAverage == InitAverage /\ [][NextAverage]_vars

----------------------------------------------------------------------------
(* generateValidationReport applied on its own, to expected costs a caller *)
(* may hand it, a total of zero included.                                  *)

ReportTotals == {RInt(0), RInt(987), RInt(50), RInt(-50)}
ReportClaims == {RInt(0), RInt(1000), RInt(58), RInt(-42), RInt(42)}
ReportBreakdowns ==
  {<<>>,
   <<BreakdownItem(CommaJoin(Str(sWashington), Str(sDC)), Str(sDate1),
                   RatesOf(Null))>>}
ReportArgs ==
  [extractedData : {<<>>, [travelerName |-> Str(sAnn)]},
   expectedCosts : [totalExpected : ReportTotals,
                    breakdown : ReportBreakdowns],
   claimedCost : ReportClaims]

InitReport ==
  /\ impl \in Impls
  /\ sheet = NoSheet
  /\ call = "idle"
  /\ req = NoReq
  /\ res = NoRes
  /\ args \in ReportArgs
  /\ out = NoOut

(* generateValidationReport(extractedData, expectedCosts, claimedCost)     *)
CallReport ==
  /\ ~out.returned
  /\ out' = [returned |-> TRUE,
             value |-> generateValidationReport(impl, args.extractedData,
                                                args.expectedCosts,
                                                args.claimedCost)]
  /\ UNCHANGED <<impl, sheet, call, req, res, args>>

NextReport == CallReport

SpecReport == InitReport /\ [][NextReport]_vars

----------------------------------------------------------------------------
(* extractItineraryDataEnhanced applied on its own: a document text grows  *)
(* token by token after a header, and the function is applied to it.       *)

(* Tokens a text holds after its header before the model stops extending   *)
(* it.                                                                     *)
MaxTokens == 4

sPlainHeader == <<"G", "o">>
ItineraryHeaders == {sAuthorizedItinerary, sTravelSchedule, sPlainHeader}

sSlashDate == <<" ", "1", "/", "5", "/", "2", "0", "2", "5">>
sShortMonthDate == <<"\n", "0", "2", "/", "3", "0", "/", "2", "0", "2",
  "5">>
sDatedBoston == <<" ", "1", "/", "6", "/", "2", "0", "2", "5", " ", "B",
  "o", "s", "t", "o", "n", ",", " ", "M", "A">>
sNewYorkNY == <<" ", "t", "o", " ", "N", "e", "w", " ", "Y", "o", "r", "k",
  ",", "N", "Y">>
ItineraryTokens == {sSlashDate, sShortMonthDate, sDatedBoston, sNewYorkNY}

(* The dates of these texts are rewritten to the ISO form, which an        *)
(* engine's fallback parser never sees.                                    *)
ItineraryEngines == {e \in Engines : e.legacy}

InitItinerary ==
  /\ impl = "updated"
  /\ sheet = NoSheet
  /\ call = "idle"
  /\ req = NoReq
  /\ res = NoRes
  /\ \E h \in ItineraryHeaders, e \in ItineraryEngines :
       args = [text |-> h, tokens |-> 0, engine |-> e]
  /\ out = NoOut

(* The document goes on with a date or a place.                            *)
AppendToken ==
  /\ args.tokens < MaxTokens
  /\ \E t \in ItineraryTokens :
       args' = [args EXCEPT !.text = @ \o t, !.tokens = @ + 1]
  /\ out' = NoOut
  /\ UNCHANGED <<impl, sheet, call, req, res>>

(* The return value, with the locals of the run that produced it.          *)
ItineraryReturned(run) ==
  [returned |-> TRUE, value |-> run.itinerary, section |-> run.section,
   dates |-> run.dates, locations |-> run.locations]

(* extractItineraryDataEnhanced(text)                                      *)
CallItinerary ==
  /\ ~out.returned
  /\ out' = ItineraryReturned(ItineraryRun(args.engine, args.text))
  /\ UNCHANGED <<impl, sheet, call, req, res, args>>

NextItinerary == AppendToken \/ CallItinerary

SpecItinerary == InitItinerary /\ [][NextItinerary]_vars

----------------------------------------------------------------------------
(* normalizeDate applied on its own to month, day and year joined by a     *)
(* slash or a dash, existing dates and others, under each behaviour of the *)
(* engine's Date constructor.                                              *)

DateMonths ==
  {<<"1">>, <<"0", "2">>, <<"2">>, <<"4">>, <<"1", "2">>, <<"1", "3">>,
   <<"0">>}
DateDays ==
  {<<"1">>, <<"0", "5">>, <<"2", "8">>, <<"2", "9">>, <<"3", "0">>,
   <<"3", "1">>, <<"3", "2">>, <<"4", "5">>, <<"0">>}
DateYears == {<<"2", "0", "2", "4">>, <<"2", "0", "2", "5">>}
DateSeparators == {"/", "-"}

DateArgs(m, d, y, sep, e) ==
  [dateString |-> m \o <<sep>> \o d \o <<sep>> \o y,
   month |-> m, day |-> d, year |-> y, engine |-> e]

InitDate ==
  /\ impl = "updated"
  /\ sheet = NoSheet
  /\ call = "idle"
  /\ req = NoReq
  /\ res = NoRes
  /\ \E m \in DateMonths, d \in DateDays, y \in DateYears,
        sep \in DateSeparators, e \in Engines :
       args = DateArgs(m, d, y, sep, e)
  /\ out = NoOut

(* normalizeDate(dateString)                                               *)
CallNormalizeDate ==
  /\ ~out.returned
  /\ out' = [returned |-> TRUE,
             value |-> normalizeDate(args.engine, args.dateString)]
  /\ UNCHANGED <<impl, sheet, call, req, res, args>>

NextDate == CallNormalizeDate

SpecDate == InitDate /\ [][NextDate]_vars

----------------------------------------------------------------------------
(* extractGSAFormDataEnhanced applied on its own to form texts: for each   *)
(* of five lines the text either lacks it or holds one of its variants,    *)
(* among them amounts that consist of commas only.                         *)

sNoLine == <<>>
sTotalCostLine == <<"T", "o", "t", "a", "l", " ", "c", "o", "s", "t", ":",
  " ", "$", "1", ",", "2", "3", "4", ".", "5", "0", "\n">>
sAmountCommas == <<"A", "m", "o", "u", "n", "t", ":", " ", ",", ",", ",",
  "\n">>
sPerDiemLine == <<"P", "e", "r", " ", "d", "i", "e", "m", ":", " ", "7",
  "9", "\n">>
sPerDiemComma == <<"P", "e", "r", " ", "d", "i", "e", "m", " ", ",",
  "\n">>
sHotelLine == <<"H", "o", "t", "e", "l", ":", " ", "1", "5", "0", ".",
  "\n">>
sLodgingCommaFive == <<"L", "o", "d", "g", "i", "n", "g", ":", " ", ",",
  "5", "\n">>
sVehicleLine == <<"V", "e", "h", "i", "c", "l", "e", ":", " ", "4", "0",
  "\n">>
sOtherCommas == <<"O", "t", "h", "e", "r", ":", " ", ",", ",", "\n">>
sDepartLine == <<"D", "e", "p", "a", "r", "t", ":", " ", "0", "2", "/",
  "3", "0", "/", "2", "0", "2", "5", "\n">>

FormTexts ==
  {a \o b \o c \o d \o e :
     a \in {sNoLine, sTotalCostLine, sAmountCommas},
     b \in {sNoLine, sPerDiemLine, sPerDiemComma},
     c \in {sNoLine, sHotelLine, sLodgingCommaFive},
     d \in {sNoLine, sVehicleLine, sOtherCommas},
     e \in {sNoLine, sDepartLine}}

InitForm ==
  /\ impl \in Impls
  /\ sheet = NoSheet
  /\ call = "idle"
  /\ req = NoReq
  /\ res = NoRes
  /\ \E t \in FormTexts, e \in ItineraryEngines :
       args = [text |-> t, engine |-> e]
  /\ out = NoOut

(* extractGSAFormDataEnhanced(text)                                        *)
CallExtractForm ==
  /\ ~out.returned
  /\ out' = [returned |-> TRUE,
             value |-> extractGSAFormDataEnhanced(impl, args.engine, args.text)]
  /\ UNCHANGED <<impl, sheet, call, req, res, args>>

NextForm == CallExtractForm

SpecForm == InitForm /\ [][NextForm]_vars


----------------------------------------------------------------------------
(* cleanExtractedText applied on its own to the texts over a few           *)
(* characters: blanks and line breaks, a character outside the allow-list, *)
(* the currency sign, letters the function reads as digits, and a digit.   *)

MaxChars == 5

CleanChars == {" ", "\n", "@", "$", "O", "l", "1"}

InitClean ==
  /\ impl \in Impls
  /\ sheet = NoSheet
  /\ call = "idle"
  /\ req = NoReq
  /\ res = NoRes
  /\ args = [text |-> <<>>]
  /\ out = NoOut

AppendChar ==
  /\ ~out.returned
  /\ Len(args.text) < MaxChars
  /\ \E c \in CleanChars : args' = [args EXCEPT !.text = Append(@, c)]
  /\ UNCHANGED <<impl, sheet, call, req, res, out>>

(* cleanExtractedText(text), and the function applied to its own output.   *)
CleanTwice(i, once) == [returned |-> TRUE, value |-> once, again |-> cleanExtractedText(i, once)]

CallClean ==
  /\ ~out.returned
  /\ out' = CleanTwice(impl, cleanExtractedText(impl, args.text))
  /\ UNCHANGED <<impl, sheet, call, req, res, args>>

NextClean == AppendChar \/ CallClean

SpecClean == InitClean /\ [][NextClean]_vars
----------------------------------------------------------------------------
(* Bulk processing on its own: records are appended to the parsed CSV,     *)
(* then processBulkRecords (updated) or validateCsvFile (gas) groups and   *)
(* aggregates them and emits one result row per aggregated record.         *)

MaxRecords == 3

sNoId == <<>>
sIdT1 == <<"T", "1">>
sId10 == <<"1", "0">>
sId2 == <<"2">>
sZero == <<"0">>
sFiveHundred == <<"5", "0", "0">>
sTen == <<"1", "0">>
sTwenty == <<"2", "0">>

BulkTarIds == {sNoId, sIdT1, sId10, sId2}
BulkTotals == {sZero, sFiveHundred}
BulkCosts == {sTen, sTwenty}

BulkRecord(id, total, cost) ==
  [column \in {"TAR ID", "Total Actual Cost", "Cost Type Value"} |->
     CASE column = "TAR ID" -> Str(id)
       [] column = "Total Actual Cost" -> Str(total)
       [] OTHER -> Str(cost)]

BulkRecords == {BulkRecord(id, total, cost) : id \in BulkTarIds, total \in BulkTotals, cost \in BulkCosts}

NoBulk == [started |-> FALSE, aggregated |-> <<>>, rows |-> <<>>]

InitBulk ==
  /\ impl \in Impls
  /\ sheet = NoSheet
  /\ call = "idle"
  /\ req = NoReq
  /\ res = NoRes
  /\ args = [records |-> <<>>]
  /\ out = NoBulk

(* One more data line of the CSV file: parseCsv / readCsv push a record.   *)
AppendRecord ==
  /\ ~out.started
  /\ Len(args.records) < MaxRecords
  /\ \E rec \in BulkRecords : args' = [args EXCEPT !.records = Append(@, rec)]
  /\ UNCHANGED <<impl, sheet, call, req, res, out>>

(* processBulkRecords(records) up to its processing loop; in gas           *)
(* validateCsvFile up to aggregated.forEach.                               *)
StartBulk ==
  /\ ~out.started
  /\ out' = [started |-> TRUE,
             aggregated |-> aggregateByTarId(args.records),
             rows |-> <<>>]
  /\ UNCHANGED <<impl, sheet, call, req, res, args>>

(* One turn of the processing loop: the success handler, the failure       *)
(* handler and the offline branch each call addBulkResultRow(tarId, ...)   *)
(* once; validateCsvFile logs one 'TAR ID: ...' block.                     *)
EmitRow ==
  /\ out.started
  /\ Len(out.rows) < Len(out.aggregated)
  /\ out' = [out EXCEPT !.rows = Append(@, TarIdOfRow(out.aggregated[Len(out.rows) + 1]))]
  /\ UNCHANGED <<impl, sheet, call, req, res, args>>

NextBulk == AppendRecord \/ StartBulk \/ EmitRow

SpecBulk == InitBulk /\ [][NextBulk]_vars

----------------------------------------------------------------------------
(* The processing loop of processBulkRecords, request by request: each     *)
(* turn issues google.script.run.validateTarWithPerDiem(data) inside a new *)
(* Promise and awaits it; the success or the failure handler adds the row, *)
(* counts the record and resolves the promise.  Without google.script.run  *)
(* the turn validates offline and is one step.                             *)

ProcessRecords == {BulkRecord(id, sZero, sTen) : id \in BulkTarIds}

NoProcess ==
  [started |-> FALSE, online |-> FALSE, aggregated |-> <<>>, next |-> 1,
   outstanding |-> {}, processed |-> 0, rows |-> <<>>, done |-> FALSE]

InitProcess ==
  /\ impl = "updated"
  /\ sheet = NoSheet
  /\ call = "idle"
  /\ req = NoReq
  /\ res = NoRes
  /\ args = [records |-> <<>>]
  /\ out = NoProcess

AddRecord ==
  /\ ~out.started
  /\ Len(args.records) < MaxRecords
  /\ \E rec \in ProcessRecords : args' = [args EXCEPT !.records = Append(@, rec)]
  /\ UNCHANGED <<impl, sheet, call, req, res, out>>

(* processBulkRecords(records) up to the loop: total = aggregated.length,  *)
(* processed = 0; online says whether google.script.run exists.            *)
StartProcess ==
  /\ ~out.started
  /\ \E online \in BOOLEAN :
       out' = [NoProcess EXCEPT !.started = TRUE, !.online = online,
                                !.aggregated = aggregateByTarId(args.records)]
  /\ UNCHANGED <<impl, sheet, call, req, res, args>>

(* A loop without the await goes on at once.                               *)
NotAwaited(outstanding) == TRUE

(* await new Promise(...): the loop goes on when no request is in flight.  *)
Awaited(outstanding) == outstanding = {}

(* The loop takes the next aggregated record and sends its request.        *)
IssueRequest ==
  /\ out.started /\ out.online /\ ~out.done
  /\ Awaited(out.outstanding)
  /\ out.next <= Len(out.aggregated)
  /\ out' = [out EXCEPT !.outstanding = @ \cup {out.next}, !.next = @ + 1]
  /\ UNCHANGED <<impl, sheet, call, req, res, args>>

(* addBulkResultRow(tarId, ...); processed += 1; resolve()                 *)
Handled(o, k, via) ==
  [o EXCEPT !.rows = Append(@, [tarId |-> TarIdOfRow(o.aggregated[k]), via |-> via]),
            !.processed = @ + 1,
            !.outstanding = @ \ {k}]

(* withSuccessHandler((res) => ...)                                        *)
SuccessHandler ==
  /\ \E k \in out.outstanding : out' = Handled(out, k, "success")
  /\ UNCHANGED <<impl, sheet, call, req, res, args>>

(* withFailureHandler((err) => ...)                                        *)
FailureHandler ==
  /\ \E k \in out.outstanding : out' = Handled(out, k, "failure")
  /\ UNCHANGED <<impl, sheet, call, req, res, args>>

(* The else branch: offlineValidateTar(data), the row, processed += 1.     *)
OfflineTurn ==
  /\ out.started /\ ~out.online /\ ~out.done
  /\ out.next <= Len(out.aggregated)
  /\ out' = [Handled(out, out.next, "offline") EXCEPT !.next = @ + 1]
  /\ UNCHANGED <<impl, sheet, call, req, res, args>>

(* After the loop: showSuccess('Bulk processing complete').                *)
FinishProcess ==
  /\ out.started /\ ~out.done
  /\ Awaited(out.outstanding)
  /\ out.next > Len(out.aggregated)
  /\ out' = [out EXCEPT !.done = TRUE]
  /\ UNCHANGED <<impl, sheet, call, req, res, args>>

NextProcess ==
  \/ AddRecord \/ StartProcess \/ IssueRequest \/ SuccessHandler
  \/ FailureHandler \/ OfflineTurn \/ FinishProcess

SpecProcess == InitProcess /\ [][NextProcess]_vars


----------------------------------------------------------------------------
(* The document pipeline of the dashboard: processUpload and the three     *)
(* functions that decide by the risk score.                                *)

(* The risk scores: calculateRiskScore rounds and clamps to 0..100.        *)
MaxScore == 100
RiskScores == 0..MaxScore

(* The global names a call can resolve: the services of Apps Script and    *)
(* the functions the project declares. A name outside them throws a        *)
(* ReferenceError where it is evaluated.                                   *)
PlatformGlobals ==
  {"Session", "DriveApp", "SpreadsheetApp", "Utilities", "PropertiesService",
   "GmailApp", "ScriptApp", "console"}
DeclaredFunctions ==
  {"saveToFolder", "extractTextContent", "classifyDocument",
   "validateDocument", "calculateRiskScore", "saveToTrackingSheet",
   "initializeDatabase", "generateTrackingId", "moveToProcessedFolder",
   "sendNotifications", "sendHighRiskNotification",
   "sendStandardNotification", "getProperty", "getWebAppUrl"}
Resolves(name) == name \in PlatformGlobals \cup DeclaredFunctions

(* riskScore > 85 ? "AUTO_APPROVED" : riskScore > 70 ? ... (processUpload) *)
TrackingStatus(riskScore) ==
  IF riskScore > 85 THEN "AUTO_APPROVED"
  ELSE IF riskScore > 70 THEN "REVIEW_REQUIRED"
  ELSE "MANUAL_REVIEW"

(* targetFolderName of moveToProcessedFolder                               *)
TargetFolderName(riskScore) ==
  IF riskScore > 85 THEN "validated"
  ELSE IF riskScore > 70 THEN "processed"
  ELSE "rejected"

(* The branch of sendNotifications once userEmail is known.                *)
NotificationFor(riskScore) ==
  IF riskScore <= 70 THEN "high"
  ELSE IF riskScore <= 85 THEN "standard"
  ELSE "none"

(* generateTrackingId reads sessionStorage.getScriptTimeZone() for the     *)
(* second argument of Utilities.formatDate, and then calls                 *)
(* (...).toString.padStart, a property functions do not have.              *)
generateTrackingId ==
  IF ~Resolves("sessionStorage")
  THEN [thrown |-> TRUE, error |-> "ReferenceError"]
  ELSE [thrown |-> TRUE, error |-> "TypeError"]

(* saveToTrackingSheet: the row is appended after the id is generated.     *)
Tracked(id, status, rows) ==
  IF id.thrown
  THEN [thrown |-> TRUE, error |-> id.error, rows |-> rows]
  ELSE [thrown |-> FALSE, error |-> "", rows |-> Append(rows, status)]

saveToTrackingSheet(status, rows) == Tracked(generateTrackingId, status, rows)

(* moveToProcessedFolder: the folder that holds the file afterwards.       *)
moveToProcessedFolder(riskScore) == TargetFolderName(riskScore)

(* sendNotifications: the notification sent; the catch swallows the error  *)
(* of the first statement, sessionStorage.getActiveUser().                 *)
sendNotifications(riskScore) ==
  IF ~Resolves("sessionStorage") THEN "none" ELSE NotificationFor(riskScore)

(* What a run leaves behind: the status computed for the tracking record,  *)
(* the rows of the tracking sheet, the folder holding the file and the     *)
(* notification sent.                                                      *)
Outcome(op, riskScore, status, rows, folder, notification, success) ==
  [returned |-> TRUE, op |-> op, riskScore |-> riskScore, status |-> status,
   rows |-> rows, folder |-> folder, notification |-> notification,
   success |-> success]

(* Steps 7 and 8 of processUpload; step 7 calls movetoProcessedFolder.     *)
MoveAndNotify(riskScore, status, rows) ==
  IF ~Resolves("movetoProcessedFolder")
  THEN Outcome("processUpload", riskScore, status, rows, "incoming", "none",
               FALSE)
  ELSE Outcome("processUpload", riskScore, status, rows,
               moveToProcessedFolder(riskScore), sendNotifications(riskScore),
               TRUE)

(* Step 6 and what follows: a throw of saveToTrackingSheet ends the run in *)
(* the catch of processUpload.                                             *)
AfterTracking(riskScore, status, tracked) ==
  IF tracked.thrown
  THEN Outcome("processUpload", riskScore, status, tracked.rows, "incoming",
               "none", FALSE)
  ELSE MoveAndNotify(riskScore, status, tracked.rows)

(* processUpload for a file whose validation gave riskScore: the file is   *)
(* saved to "incoming" first.                                              *)
processUpload(riskScore, rows) ==
  AfterTracking(riskScore, TrackingStatus(riskScore),
                saveToTrackingSheet(TrackingStatus(riskScore), rows))

InitUpload ==
  /\ impl = "dashboard"
  /\ sheet = NoSheet
  /\ call = "idle"
  /\ req = NoReq
  /\ res = NoRes
  /\ args = NoArgs
  /\ out = NoOut

(* google.script.run.processUpload(fileBlob, fileName, documentType)       *)
Upload ==
  \E riskScore \in RiskScores :
    /\ out' = processUpload(riskScore, <<>>)
    /\ UNCHANGED <<impl, sheet, call, req, res, args>>

(* moveToProcessedFolder run by itself on a file in "incoming".            *)
Move ==
  \E riskScore \in RiskScores :
    /\ out' = Outcome("moveToProcessedFolder", riskScore, "", <<>>,
                      moveToProcessedFolder(riskScore), "none", TRUE)
    /\ UNCHANGED <<impl, sheet, call, req, res, args>>

(* sendNotifications run by itself.                                        *)
Notify ==
  \E riskScore \in RiskScores :
    /\ out' = Outcome("sendNotifications", riskScore, "", <<>>, "incoming",
                      sendNotifications(riskScore), TRUE)
    /\ UNCHANGED <<impl, sheet, call, req, res, args>>

NextUpload == Upload \/ Move \/ Notify

SpecUpload == InitUpload /\ [][NextUpload]_vars

----------------------------------------------------------------------------
(* retryWithBackOff(func, maxRetries, baseDelay): one call of the function *)
(* it returns, statement by statement. The trace lists what the call did:  *)
(* [kind |-> "ok" | "err", n |-> attempt] for an invocation of func and    *)
(* [kind |-> "sleep", n |-> delay] for a Utilities.sleep.                  *)

(* The largest maxRetries the model passes; the default is 3.              *)
MaxRetries == 4
BaseDelays == {1, 500, 1000}
Results == {"a", "b"}

RECURSIVE Pow2(_)
Pow2(k) == IF k = 0 THEN 1 ELSE 2 * Pow2(k - 1)

Event(kind, n) == [kind |-> kind, n |-> n]

NoError == [thrown |-> FALSE, by |-> 0]
ErrorOf(attempt) == [thrown |-> TRUE, by |-> attempt]

NoRetry ==
  [returned |-> FALSE, maxRetries |-> 0, baseDelay |-> 0, attempt |-> 0,
   lastError |-> NoError, trace |-> <<>>, result |-> "", error |-> NoError]

InitRetry ==
  /\ impl = "dashboard"
  /\ sheet = NoSheet
  /\ call = "idle"
  /\ req = NoReq
  /\ res = NoRes
  /\ args = NoArgs
  /\ out = NoRetry

(* The wrapped function is called: let lastError; attempt = 0.             *)
CallWrapped ==
  /\ call = "idle"
  /\ \E maxRetries \in 0..MaxRetries, baseDelay \in BaseDelays :
       out' = [NoRetry EXCEPT !.maxRetries = maxRetries,
                              !.baseDelay = baseDelay]
  /\ call' = "loop"
  /\ UNCHANGED <<impl, sheet, req, res, args>>

(* return func.apply(this, args): func returns.                            *)
FuncReturns ==
  /\ call = "loop"
  /\ out.attempt < out.maxRetries
  /\ \E value \in Results :
       out' = [out EXCEPT !.returned = TRUE, !.result = value,
                          !.trace = Append(@, Event("ok", out.attempt))]
  /\ call' = "returned"
  /\ UNCHANGED <<impl, sheet, req, res, args>>

(* func throws: catch (error) { lastError = error; ...                     *)
FuncThrows ==
  /\ call = "loop"
  /\ out.attempt < out.maxRetries
  /\ out' = [out EXCEPT !.lastError = ErrorOf(out.attempt),
                        !.trace = Append(@, Event("err", out.attempt))]
  /\ call' = "caught"
  /\ UNCHANGED <<impl, sheet, req, res, args>>

(* Fault: the delay without its condition.                                 *)
SleepsAlways(attempt, maxRetries) == TRUE

(* if (attempt < maxRetries - 1)                                           *)
SleepsBeforeNext(attempt, maxRetries) == attempt < maxRetries - 1

(* The rest of the catch block and attempt++.                              *)
BackOff ==
  /\ call = "caught"
  /\ out' = [out EXCEPT
               !.attempt = @ + 1,
               !.trace =
                 IF SleepsBeforeNext(out.attempt, out.maxRetries)
                 THEN Append(@, Event("sleep",
                                      out.baseDelay * Pow2(out.attempt)))
                 ELSE @]
  /\ call' = "loop"
  /\ UNCHANGED <<impl, sheet, req, res, args>>

(* The loop is left: throw lastError.                                      *)
Rethrow ==
  /\ call = "loop"
  /\ ~(out.attempt < out.maxRetries)
  /\ out' = [out EXCEPT !.error = out.lastError]
  /\ call' = "thrown"
  /\ UNCHANGED <<impl, sheet, req, res, args>>

(* The caller has the result or the error; the wrapped function can be     *)
(* called again.                                                           *)
Done ==
  /\ call \in {"returned", "thrown"}
  /\ call' = "idle"
  /\ out' = NoRetry
  /\ UNCHANGED <<impl, sheet, req, res, args>>

NextRetry ==
  CallWrapped \/ FuncReturns \/ FuncThrows \/ BackOff \/ Rethrow \/ Done

SpecRetry == InitRetry /\ [][NextRetry]_vars
----------------------------------------------------------------------------
(* Properties.                                                             *)

Reached(r, phase) == \E k \in 1..Len(r.phases) : r.phases[k] = phase

RateWarning == "Unable to fetch GSA rates - using default values"
ExtractionWarning == "PDF extraction failed - using manual input"

Has(seq, x) == \E k \in 1..Len(seq) : seq[k] = x

(* The i-th lookup of the run in res came back absent: the stop lacks a    *)
(* city or a state, or the rate source gave no usable answer.              *)
AbsentAt(i) ==
  \/ ~Truthy(res.lookups[i].city)
  \/ ~Truthy(res.lookups[i].state)
  \/ req.env.responses[i].kind \in {"neterr", "http", "badjson", "empty"}

(* validateFormData was called on the merged record of run r and reported  *)
(* an error.                                                               *)
FieldErrors(i, r) ==
  Reached(r, "FIELD_CHECK") /\ ~validateFormData(i, r.merged).isValid

FailResult(i, r) ==
  /\ r.outcome = "FAIL"
  /\ r.success = FALSE
  /\ r.errors = validateFormData(i, r.merged).errors
  /\ r.errors # <<>>
  /\ r.validationReport = Null
  /\ r.lookups = <<>>
  /\ ~r.costCalculated
  /\ ~r.reported
  /\ ~r.logged

(* C1: a run whose field check reports at least one error ends in FAIL:    *)
(* success is false, errors is the whole list validateFormData built,      *)
(* validationReport is null, and the run makes no rate lookup, calculates  *)
(* no cost, generates no report and leaves the log sheet as it was.        *)
C1_FieldErrorsEndInFail ==
  [][(call = "pending" /\ call' = "returned" /\ FieldErrors(impl, res'))
       => (FailResult(impl, res') /\ sheet' = sheet)]_vars

(* A failed run with two errors, on a log that already holds a data row.   *)
C1_Witness ==
  /\ call = "returned"
  /\ res.outcome = "FAIL"
  /\ Len(res.errors) >= 2
  /\ Len(sheet.rows) >= 2

(* The value the merge stores for a manual field.                          *)
Coerced(k, v) ==
  CASE k = "duration" -> OrElse(parseInt(v), 1)
    [] k = "totalCost" -> OrElse(parseFloat(v), 0)
    [] OTHER -> v

(* C2: right after the merge, every field of the manual input holds the    *)
(* manual value (duration and totalCost after numeric coercion) whatever   *)
(* the extracted record holds for it, and a field that only the extracted  *)
(* record has keeps its extracted value.                                   *)
C2_ManualPrecedence ==
  (call = "returned" /\ Reached(res, "MERGING")) =>
    /\ \A k \in DOMAIN req.data.v :
         res.merged0[k] = Coerced(k, req.data.v[k])
    /\ \A k \in (DOMAIN res.extractedData) \ (DOMAIN req.data.v) :
         k \notin {"duration", "totalCost"}
           => res.merged0[k] = res.extractedData[k]

(* A blank manual travelerName wins over an extracted one, and the         *)
(* extracted dutyStation, which the manual input lacks, is kept.           *)
C2_Witness ==
  /\ call = "returned"
  /\ Reached(res, "MERGING")
  /\ Get(res.extractedData, "travelerName") = Str(sBob)
  /\ "travelerName" \in DOMAIN req.data.v
  /\ req.data.v["travelerName"] = Str(<<>>)
  /\ res.merged0["travelerName"] = Str(<<>>)
  /\ "dutyStation" \notin DOMAIN req.data.v
  /\ res.merged0["dutyStation"] = Str(sBoMa)

(* variance and variancePercent of a report, as the specification defines  *)
(* them.                                                                   *)
VarianceOf(report) ==
  RSub(report.claimedCost, report.expectedCosts.totalExpected)
VariancePercentOf(report) ==
  IF RIsZero(report.expectedCosts.totalExpected) THEN RInt(0)
  ELSE RMul(RDiv(VarianceOf(report), report.expectedCosts.totalExpected),
            RInt(100))
BothChecks(report) ==
  /\ RLeq(RAbs(VarianceOf(report)), RInt(COST_BUFFER))
  /\ RLeq(RAbs(VariancePercentOf(report)), RInt(MAX_DEVIATION_PERCENT))

(* C3: for every run that reaches the report, isValid is true exactly when *)
(* |variance| <= COST_BUFFER and |variancePercent| <= MAX_DEVIATION_PERCENT *)
(* with variance = claimedCost - totalExpected.                            *)
C3_IsValidIffBothChecks ==
  (call = "returned" /\ res.reported) =>
    (res.isValid <=> BothChecks(res.validationReport))

(* C4: in both implementations of generateValidationReport, an expected    *)
(* total of 0 yields variancePercent 0 for every claimed cost.             *)
C4_ZeroExpectedZeroPercent ==
  (out.returned /\ RIsZero(args.expectedCosts.totalExpected)) =>
    out.value.variancePercent = [t |-> "fixed", v |-> 0]

(* The request of C5: Washington, DC, 3 days, no itinerary, 1000 claimed,  *)
(* and a rate answer with Meals 79 and 250 for all twelve months.          *)
WashingtonRun ==
  /\ call = "returned"
  /\ req.data.t = "obj"
  /\ Get(req.data.v, "city") = Str(sWashington)
  /\ Get(req.data.v, "state") = Str(sDC)
  /\ Get(req.data.v, "duration") = Num(3)
  /\ Get(req.data.v, "totalCost") = Num(1000)
  /\ "itinerary" \notin DOMAIN req.data.v
  /\ req.env.responses[1] = Ok(rate250)
  /\ res.reported
  /\ DOMAIN res.extractedData = {}

(* C5: that run yields mie 79, lodging 250, totalExpected 987, variance    *)
(* 13, isWithinBuffer false, isWithinDeviation true, isValid false, and    *)
(* recommendations that hold rule (a) and not rule (b).                    *)
C5_WashingtonThreeDays ==
  WashingtonRun =>
    /\ Len(res.breakdown) = 1
    /\ res.breakdown[1].mie = RInt(79)
    /\ res.breakdown[1].lodging = RInt(250)
    /\ res.validationReport.expectedCosts.totalExpected = RInt(987)
    /\ res.expectedCost = 98700
    /\ res.validationReport.variance = RInt(13)
    /\ res.variance = 1300
    /\ ~res.validationReport.isWithinBuffer
    /\ res.validationReport.isWithinDeviation
    /\ res.isValidSet /\ ~res.isValid
    /\ Has(res.validationReport.recommendations, RuleA)
    /\ ~Has(res.validationReport.recommendations, RuleB)

C5_Witness ==
  /\ WashingtonRun
  /\ impl = "updated"
  /\ res.validationReport.recommendations = <<RuleA>>

(* The messages of the exceptions a run can raise.                         *)
ExceptionMessages ==
  {"Cannot read properties of undefined",
   "mergedData.dutyStation.split is not a function",
   "itinerary.forEach is not a function"}

(* The requests on which a statement of the handler throws.                *)
ThrowsAtStart == req.data.t # "obj"
ThrowsAtSplit ==
  /\ req.data.t = "obj"
  /\ impl = "gas"
  /\ Get(req.data.v, "dutyStation").t = "num"
  /\ ~Truthy(Get(req.data.v, "city"))
ThrowsAtForEach ==
  /\ req.data.t = "obj"
  /\ impl = "updated"
  /\ Get(req.data.v, "itinerary").t = "str"
  /\ Truthy(Get(req.data.v, "itinerary"))
  /\ Reached(res, "COST_CALC")

SystemErrorResult ==
  /\ res.outcome = "SYSTEM_ERROR"
  /\ res.success = FALSE
  /\ res.isValidSet /\ res.isValid = FALSE
  /\ Len(res.errors) = 1
  /\ \E m \in ExceptionMessages : res.errors[1] = "System error: " \o m
  /\ ~res.reported /\ ~res.logged

(* C6: an exception raised in validateTarWithPerDiem is caught: the call   *)
(* returns success false, isValid false and exactly one error, a           *)
(* "System error: ..." message; every call returns one of the three kinds  *)
(* of result.                                                              *)
C6_ExceptionsCaught ==
  call = "returned" =>
    /\ res.outcome \in {"FAIL", "REPORT_READY", "SYSTEM_ERROR"}
    /\ (ThrowsAtStart \/ ThrowsAtSplit \/ ThrowsAtForEach) => SystemErrorResult
    /\ res.outcome = "SYSTEM_ERROR" => SystemErrorResult

C6_Witness ==
  /\ call = "returned"
  /\ ThrowsAtForEach
  /\ res.errors = <<"System error: itinerary.forEach is not a function">>

(* C7: when a lookup of a run comes back absent, no error is raised, the   *)
(* breakdown item of that stop (or of the trip) carries DEFAULT_MIE and    *)
(* DEFAULT_LODGING, and the run ends with success true.                    *)
C7_AbsentLookupUsesDefaults ==
  call = "returned" =>
    \A i \in 1..Len(res.lookups) :
      AbsentAt(i) =>
        /\ res.outcome = "REPORT_READY"
        /\ res.success
        /\ res.errors = <<>>
        /\ res.breakdown[i].mie = RInt(DEFAULT_MIE)
        /\ res.breakdown[i].lodging = RInt(DEFAULT_LODGING)
        /\ res.lookups[i].absent

(* An itinerary run whose first lookup meets a network error and whose     *)
(* second stop has no city, so that the source is not even called.         *)
C7_Witness ==
  /\ call = "returned"
  /\ Len(res.lookups) = 2
  /\ req.env.responses[1].kind = "neterr"
  /\ Truthy(res.lookups[1].city)
  /\ ~Truthy(res.lookups[2].city)
  /\ ~res.lookups[2].called
  /\ res.success

(* C8: a run that reaches the report after at least one absent lookup      *)
(* carries a rate-unavailable warning, in itinerary mode as in duration    *)
(* mode.                                                                   *)
C8_AbsentLookupWarns ==
  (call = "returned" /\ res.reported
     /\ \E i \in 1..Len(res.lookups) : AbsentAt(i))
    => Has(res.warnings, RateWarning)

(* The request carries document bytes and the text extraction gives        *)
(* nothing.                                                                *)
ExtractionFailed ==
  /\ call = "returned"
  /\ req.data.t = "obj"
  /\ Truthy(Get(req.data.v, "pdfContent"))
  /\ ~Truthy(req.env.text)

SameVerdict(r, b) ==
  /\ r.outcome = b.outcome
  /\ r.success = b.success
  /\ r.errors = b.errors
  /\ r.isValidSet = b.isValidSet
  /\ r.isValid = b.isValid
  /\ r.expectedCost = b.expectedCost
  /\ r.variance = b.variance

(* C9: such a run does not fail on that account: it warns                  *)
(* 'PDF extraction failed - using manual input', uses an empty extracted   *)
(* record, and has the success, errors, isValid, expectedCost and variance *)
(* of the same request submitted without pdfContent.                       *)
C9_ExtractionFallback ==
  ExtractionFailed =>
    /\ Has(res.warnings, ExtractionWarning)
    /\ DOMAIN res.extractedData = {}
    /\ res.outcome # "SYSTEM_ERROR"
    /\ SameVerdict(res,
                   validateTarWithPerDiem(
                     impl, Obj(Without(req.data.v, {"pdfContent"})),
                     req.env, NoSheet))

C9_Witness ==
  /\ ExtractionFailed
  /\ req.env.text = Str(<<>>)
  /\ res.reported
  /\ res.warnings = <<ExtractionWarning, RateWarning>>

(* What an entry of MonthlyValues denotes, in halves; -1 for an entry that *)
(* denotes no number.                                                      *)
HalvesOf(v) ==
  CASE v = Num(151) -> 302
    [] v = NumR(Rat(159, 2)) -> 159
    [] v = Str(s250) -> 500
    [] v = Str(sRange) -> 280
    [] v = Str(sRangeSpaced) -> 281
    [] OTHER -> -1

RECURSIVE TotalHalves(_)
TotalHalves(values) ==
  IF values = <<>> THEN 0
  ELSE (IF HalvesOf(Head(values)) >= 0 THEN HalvesOf(Head(values)) ELSE 0)
       + TotalHalves(Tail(values))

RECURSIVE CountParseable(_)
CountParseable(values) ==
  IF values = <<>> THEN 0
  ELSE (IF HalvesOf(Head(values)) >= 0 THEN 1 ELSE 0)
       + CountParseable(Tail(values))

ExpectedMean(values) ==
  IF CountParseable(values) = 0 THEN RInt(0)
  ELSE Rat(TotalHalves(values), 2 * CountParseable(values))

(* C10: average returns the mean of the entries that parse, a range        *)
(* counting as its midpoint and a number or numeric string as itself;      *)
(* undefined, null and unparseable entries count neither in the sum nor in *)
(* the count; with no parseable entry the result is 0.                     *)
C10_AverageIsMeanOfParseable ==
  out.returned => out.value = ExpectedMean(args)

(* A range, an undefined entry and a number: (140 + 151) / 2.              *)
C10_Witness ==
  /\ out.returned
  /\ args = <<Str(sRange), Undef, Num(151)>>
  /\ out.value = Rat(291, 2)

(* The recommendations the three rules prescribe for a report: rule (a)    *)
(* when the buffer check fails, (b) when the deviation check fails, (c)    *)
(* when the breakdown is empty, in that order.                             *)
ApplicableRules(report) ==
  (IF ~report.isWithinBuffer THEN <<RuleA>> ELSE <<>>)
    \o (IF ~report.isWithinDeviation THEN <<RuleB>> ELSE <<>>)
    \o (IF report.expectedCosts.breakdown = <<>> THEN <<RuleC>> ELSE <<>>)

(* C11: in both implementations of generateValidationReport the            *)
(* recommendations are exactly the applicable rules in the order (a), (b), *)
(* (c): (a) exactly when isWithinBuffer is false, (b) exactly when         *)
(* isWithinDeviation is false, (c) exactly when the breakdown is empty.    *)
C11_RecommendationsMatchFlags ==
  out.returned => out.value.recommendations = ApplicableRules(out.value)

(* A number greater than zero; a numeric string counts by its value.       *)
IsPositiveNumber(v) ==
  v.t \in {"num", "str"} /\ ~isNaN(v) /\ ~LeqZero(v) /\ Truthy(v)

(* The request carries an estimatedCost that is zero, negative or not      *)
(* numeric (a blank or missing value is not "present").                    *)
BadEstimatedCost(data) ==
  /\ data.t = "obj"
  /\ ~IsMissing(Get(data.v, "estimatedCost"))
  /\ ~IsPositiveNumber(Get(data.v, "estimatedCost"))

(* C12: a run that proceeds past the field check to cost calculation has   *)
(* a merged estimatedCost that is a positive number, and a request whose   *)
(* estimatedCost is present but zero, negative or non-numeric ends in FAIL *)
(* with the error 'Invalid estimated cost'.                                *)
C12_EstimatedCostPositive ==
  call = "returned" =>
    /\ Reached(res, "COST_CALC")
         => IsPositiveNumber(Get(res.merged, "estimatedCost"))
    /\ BadEstimatedCost(req.data)
         => (res.outcome = "FAIL" /\ Has(res.errors, "Invalid estimated cost"))

(* The phone numbers the specification accepts: once spaces, dashes and    *)
(* parentheses are removed, an optional '+' followed by 7 to 15 digits.    *)
SpecifiedPhone(s) ==
  /\ AllDigits(PhoneDigits(Strip(s, {" ", "\t", "\n", "-", "(", ")"})))
  /\ Len(PhoneDigits(Strip(s, {" ", "\t", "\n", "-", "(", ")"}))) \in 7..15

(* C13: validateFormData accepts a present contactNumber exactly when,     *)
(* after removing spaces, dashes and parentheses, it is an optional '+'    *)
(* followed by 7 to 15 digits; every other present contactNumber yields    *)
(* 'Invalid phone number format'; under both shipped configurations.       *)
C13_PhoneSevenToFifteenDigits ==
  (/\ call = "returned"
   /\ Reached(res, "FIELD_CHECK")
   /\ res.outcome # "SYSTEM_ERROR"
   /\ Truthy(Get(res.merged, "contactNumber")))
    => (Has(res.errors, "Invalid phone number format")
          <=> ~SpecifiedPhone(ToStr(Get(res.merged, "contactNumber"))))

(* Stop i carries the i-th date of the section, as normalizeDate returns   *)
(* it, and the location of index j.                                        *)
StopPairs(stop, i, j) ==
  /\ DOMAIN stop = {"date", "city", "state"}
  /\ stop["date"] = normalizeDate(args.engine, out.dates[i])
  /\ stop["city"] = Str(out.locations[j].city)
  /\ stop["state"] = Str(out.locations[j].state)

(* C14: when a located itinerary section yields d dates and l locations    *)
(* with d > l >= 1, extractItineraryDataEnhanced produces exactly d stops  *)
(* in date order; stop i carries the i-th date, the i-th location while    *)
(* there is one and the last location after that.                          *)
C14_MoreDatesShareLastLocation ==
  (/\ out.returned
   /\ out.section # <<>>
   /\ Len(out.locations) >= 1
   /\ Len(out.dates) > Len(out.locations))
    => /\ Len(out.value) = Len(out.dates)
       /\ \A i \in 1..Len(out.dates) :
            StopPairs(out.value[i], i, Min(i, Len(out.locations)))

(* Three dates and one location: three stops that share the location.      *)
C14_Witness ==
  /\ out.returned
  /\ out.section # <<>>
  /\ Len(out.dates) = 3
  /\ Len(out.locations) = 1
  /\ Len(out.value) = 3
  /\ \A i \in 1..3 : out.value[i]["city"] = Str(out.locations[1].city)

(* C15: when a located itinerary section yields more locations than dates, *)
(* the locations beyond the last date are omitted: the itinerary has       *)
(* exactly as many stops as there are dates and every stop carries a date. *)
C15_ExtraLocationsOmitted ==
  (/\ out.returned
   /\ out.section # <<>>
   /\ Len(out.locations) > Len(out.dates))
    => /\ Len(out.value) = Len(out.dates)
       /\ \A i \in 1..Len(out.value) : "date" \in DOMAIN out.value[i]

(* Month and day name a date of the calendar.                              *)
IsCalendarDate(y, m, d) == m \in 1..12 /\ d \in 1..DaysInMonth(y, m)

TwoDigits(s) == IF Len(s) = 1 THEN <<"0">> \o s ELSE s

(* What normalizeDate is specified to return for the date at hand.         *)
SpecifiedDate ==
  IF IsCalendarDate(DigitsValue(args.year), DigitsValue(args.month),
                    DigitsValue(args.day))
  THEN args.year \o <<"-">> \o TwoDigits(args.month) \o <<"-">>
         \o TwoDigits(args.day)
  ELSE args.dateString

(* C16: for an input M/D/YYYY or M-D-YYYY normalizeDate returns YYYY-MM-DD *)
(* with the same year, month and day, zero-padded, when that is a date of  *)
(* the calendar, and the input unchanged when it is not; the result never  *)
(* names a date that does not exist.                                       *)
C16_NormalizeDateValidOrUnchanged ==
  out.returned => out.value = Str(SpecifiedDate)

(* The fields extractGSAFormDataEnhanced is specified to hold as numbers.   *)
NumericFieldNames ==
  {"estimatedCost", "perDiem", "airRail", "lodging", "rentalCar",
   "miscellaneous"}

(* C17: after extractGSAFormDataEnhanced each of the numeric fields is     *)
(* either absent from the record or a finite number; a capture that does   *)
(* not parse as a decimal is dropped, never left as a string or as NaN.    *)
C17_NumericFieldsAbsentOrNumbers ==
  out.returned =>
    \A f \in NumericFieldNames \cap DOMAIN out.value : out.value[f].t = "num"


(* The rows of the input that carry the TAR ID of an aggregated record.    *)
GroupRows(records, id) == SelectSeq(records, LAMBDA rec : TarIdOf(rec) = id)

HasExplicitTotal(rec) == Truthy(baseActual(rec))

SpecifiedTotal(recs) ==
  IF \E i \in 1..Len(recs) : HasExplicitTotal(recs[i])
  THEN baseActual(FirstExplicit(recs))
  ELSE sumCost(recs)

(* C18: the total actual cost of every aggregated record is the explicit   *)
(* 'Total Actual Cost' of the first row of its group whose explicit total  *)
(* is not zero, and the sum of the group's 'Cost Type Value' entries when  *)
(* no row of the group has one.                                            *)
C18_TotalIsFirstNonZeroExplicit ==
  out.started =>
    \A k \in 1..Len(out.aggregated) :
      parseFloat(Get(out.aggregated[k], "Total Actual Cost"))
        = SpecifiedTotal(GroupRows(args.records, TarIdOfRow(out.aggregated[k])))

RECURSIVE FirstOccurrencesFrom(_, _, _)
FirstOccurrencesFrom(records, i, seen) ==
  IF i > Len(records) THEN seen
  ELSE FirstOccurrencesFrom(records, i + 1,
         IF TarIdOf(records[i]) = <<>> \/ Contains(seen, TarIdOf(records[i]))
         THEN seen ELSE Append(seen, TarIdOf(records[i])))

(* The distinct non-empty TAR IDs in the order of their first occurrence.  *)
FirstOccurrences(records) == FirstOccurrencesFrom(records, 1, <<>>)

IsPrefixOf(s, t) == Len(s) <= Len(t) /\ SubSeq(t, 1, Len(s)) = s

(* C19: at every moment of a bulk run the result rows emitted so far are   *)
(* the first TAR IDs of the input, one row each, in the order in which     *)
(* those IDs first occur; the run emits as many rows as there are distinct *)
(* non-empty TAR IDs.                                                      *)
C19_RowsFollowFirstOccurrence ==
  out.started =>
    /\ IsPrefixOf(out.rows, FirstOccurrences(args.records))
    /\ Len(out.aggregated) = Len(FirstOccurrences(args.records))

(* A provisioned sheet has one header row, and it is the first row.        *)
OneHeaderFirst(s) ==
  s.provisioned =>
    /\ Len(s.rows) >= 1
    /\ \A i \in 1..Len(s.rows) : (s.rows[i] = "HEADER") <=> (i = 1)

(* The rows of before are the first rows of after, and after has n more    *)
(* rows, none of them a header, beyond the header of a new sheet.          *)
Appended(before, after, n) ==
  /\ after.provisioned
  /\ Len(after.rows) = Len(OpenSheet(before).rows) + n
  /\ SubSeq(after.rows, 1, Len(OpenSheet(before).rows)) = OpenSheet(before).rows
  /\ \A i \in (Len(OpenSheet(before).rows) + 1)..Len(after.rows) : after.rows[i] # "HEADER"

(* C20: the log sheet, once provisioned, always has exactly one header     *)
(* row, as its first row; a run that reaches the report appends exactly    *)
(* one data row after the rows the sheet held; a run that ends in FAIL or  *)
(* in a system error leaves the sheet as it was; and after                 *)
(* clearValidationLogs a provisioned sheet holds only the header row.      *)
C20_LogSheetAppendOnly ==
  /\ [](OneHeaderFirst(sheet))
  /\ [][/\ (call = "pending" /\ call' = "returned" /\ res'.outcome = "REPORT_READY")
             => Appended(sheet, sheet', 1)
        /\ (call = "pending" /\ call' = "returned" /\ res'.outcome # "REPORT_READY")
             => sheet' = sheet
        /\ (call = "idle" /\ call' = "idle" /\ sheet.provisioned)
             => sheet'.rows = <<"HEADER">>]_vars
----------------------------------------------------------------------------
(* C21: during processBulkRecords at most one validateTarWithPerDiem       *)
(* request is outstanding; the request of a record is in flight or still   *)
(* to come only when every earlier record has its result row; processed    *)
(* counts one per result row; and when the completion message is shown     *)
(* processed equals the number of aggregated records.                      *)
C21_OneRequestAtATime ==
  out.started =>
    /\ Cardinality(out.outstanding) <= 1
    /\ \A k \in out.outstanding : Len(out.rows) = k - 1
    /\ Len(out.rows) + Cardinality(out.outstanding) = out.next - 1
    /\ out.processed = Len(out.rows)
    /\ out.done => out.processed = Len(out.aggregated)

(* A finished online run over three TAR IDs with a failed request.         *)
C21_Witness ==
  /\ out.done
  /\ out.online
  /\ Len(out.aggregated) = 3
  /\ \E i \in 1..Len(out.rows) : out.rows[i].via = "failure"

(* The stops of the run in res, when it took the itinerary branch.         *)
RunUsesItinerary == UsesItinerary(impl, Get(res.merged, "itinerary"))
RunStops == res.merged["itinerary"].v

LookupFollowsStop(i) ==
  /\ res.lookups[i].city = Get(RunStops[i], "city")
  /\ res.lookups[i].state = Get(RunStops[i], "state")

HasCityAndState(i) ==
  Truthy(res.lookups[i].city) /\ Truthy(res.lookups[i].state)

(* The rate source can be reached for the i-th lookup of the run.          *)
HasTransport(i) == req.env.responses[i].kind # "none"

IsTrimmed(s) == s = <<>> \/ (s[1] \notin Space /\ s[Len(s)] \notin Space)

NoWhitespaceRun(s) == \A i \in 1..(Len(s) - 1) : ~(s[i] \in Space /\ s[i + 1] \in Space)

OnlyAllowListed(s) == \A i \in 1..Len(s) : s[i] \in AllowListed

(* C23: the output of cleanExtractedText has no leading or trailing        *)
(* whitespace, no two whitespace characters in a row and only allow-listed *)
(* characters; the empty text gives the empty text.                        *)
C23_CleanTextNormalized ==
  out.returned =>
    /\ IsTrimmed(out.value)
    /\ NoWhitespaceRun(out.value)
    /\ OnlyAllowListed(out.value)
    /\ args.text = <<>> => out.value = <<>>

(* C26: cleaning a cleaned text changes nothing.                           *)
C26_CleanIdempotent == out.returned => out.again = out.value

(* The status column of the row the run in res appended.                   *)
LoggedStatus == sheet.rows[Len(sheet.rows)]

(* C24: the status a run writes to the validation log is the approving one *)
(* (APPROVED, Valid) exactly when the run's result has isValid true, that  *)
(* is when the report is within the buffer and within the deviation.       *)
C24_LoggedStatusAgreesWithIsValid ==
  (call = "returned" /\ res.outcome = "REPORT_READY" /\ res.logged) =>
    /\ res.isValid = (res.validationReport.isWithinBuffer
                        /\ res.validationReport.isWithinDeviation)
    /\ (LoggedStatus \in {"APPROVED", "Valid"}) = res.isValid

(* C25: in every successful result the breakdown is not empty, the         *)
(* expected cost is the sum of the totals of the breakdown items, and the  *)
(* total of each item is its mie plus its lodging.                         *)
C25_ExpectedCostIsBreakdownSum ==
  (call = "returned" /\ res.success) =>
    /\ res.breakdown # <<>>
    /\ res.expectedCost = toFixed2(SumTotals(res.breakdown))
    /\ \A i \in 1..Len(res.breakdown) :
         res.breakdown[i].total = RAdd(res.breakdown[i].mie, res.breakdown[i].lodging)

IsWholeNumber(n) == n.t = "num" /\ n.v[2] = 1

(* The daily rate of a duration-mode run: the total of its one item.       *)
DailyRate == res.breakdown[1].total

(* C27: in duration mode the duration that enters totalExpected is a whole *)
(* number of at least 1, whatever the submitted duration field holds, and  *)
(* the expected cost is above zero when the daily rate is.                 *)
C27_DurationAtLeastOne ==
  (call = "returned" /\ res.costCalculated /\ ~RunUsesItinerary) =>
    /\ IsWholeNumber(res.merged["duration"])
    /\ res.merged["duration"].v[1] >= 1
    /\ RLt(RInt(0), DailyRate) => res.expectedCost > 0

----------------------------------------------------------------------------
(* The client-side validation of the request in flight.                    *)
Offline == offlineValidateTar(req.data)

(* A manual duration-mode run of updated that reached the report with its  *)
(* lookup absent, so that the server used the default rates.               *)
DefaultRateRun ==
  /\ call = "returned"
  /\ impl = "updated"
  /\ res.outcome = "REPORT_READY"
  /\ ~RunUsesItinerary
  /\ res.extractedData = <<>>
  /\ res.lookups[1].absent

SameExpected == Offline.expected = res.validationReport.expectedCosts.totalExpected
SameVariance == Offline.variance = res.validationReport.variance
SameWithinBuffer == Offline.isWithinBuffer = res.validationReport.isWithinBuffer
SameWithinDeviation == Offline.isWithinDeviation = res.validationReport.isWithinDeviation
SameIsValid == Offline.isValid = res.isValid

(* C28: for a request that passes the field check, offlineValidateTar and  *)
(* the server's duration-mode run with default rates compute the same      *)
(* expected cost, variance, isWithinBuffer and isWithinDeviation and       *)
(* return the same isValid.                                                *)
C28_OfflineAgreesWithServer ==
  DefaultRateRun =>
    /\ Offline.success
    /\ SameExpected
    /\ SameVariance
    /\ SameWithinBuffer
    /\ SameWithinDeviation
    /\ SameIsValid

----------------------------------------------------------------------------
Uploaded == out.returned /\ out.op = "processUpload"

(* C29: after processUpload, for every risk score in 0..100, the tracking  *)
(* status is AUTO_APPROVED exactly when the file is in 'validated' and no  *)
(* notification was sent (score > 85), REVIEW_REQUIRED exactly when it is  *)
(* in 'processed' and a standard notification was sent (70 < score <= 85), *)
(* MANUAL_REVIEW exactly when it is in 'rejected' and a high-risk          *)
(* notification was sent (score <= 70).                                    *)
C29_RiskTiersAgree ==
  Uploaded =>
    /\ (out.status = "AUTO_APPROVED")
         <=> (out.folder = "validated" /\ out.notification = "none")
    /\ (out.status = "AUTO_APPROVED") <=> (out.riskScore > 85)
    /\ (out.status = "REVIEW_REQUIRED")
         <=> (out.folder = "processed" /\ out.notification = "standard")
    /\ (out.status = "REVIEW_REQUIRED")
         <=> (out.riskScore > 70 /\ out.riskScore <= 85)
    /\ (out.status = "MANUAL_REVIEW")
         <=> (out.folder = "rejected" /\ out.notification = "high")
    /\ (out.status = "MANUAL_REVIEW") <=> (out.riskScore <= 70)

----------------------------------------------------------------------------
Invocations == {i \in 1..Len(out.trace) : out.trace[i].kind \in {"ok", "err"}}
Sleeps == {i \in 1..Len(out.trace) : out.trace[i].kind = "sleep"}

(* func is invoked at most maxRetries times, in attempts 0, 1, 2, ...      *)
AtMostMaxRetries ==
  /\ Cardinality(Invocations) <= out.maxRetries
  /\ \A i \in Invocations :
       out.trace[i].n = Cardinality({j \in Invocations : j < i})

(* Nothing follows an invocation that did not throw, and its result is     *)
(* what the call returns.                                                  *)
ReturnsFirstResult ==
  /\ \A i \in Invocations : out.trace[i].kind = "ok" => i = Len(out.trace)
  /\ call = "returned" <=>
       (out.trace # <<>> /\ out.trace[Len(out.trace)].kind = "ok")
  /\ call = "returned" => out.returned /\ out.result \in Results

(* A sleep directly follows the failed attempt k < maxRetries - 1, lasts   *)
(* baseDelay * 2^k, and the next attempt directly follows it.              *)
SleepsOnlyBetweenAttempts ==
  /\ \A i \in Sleeps :
       /\ i > 1
       /\ out.trace[i - 1].kind = "err"
       /\ out.trace[i - 1].n < out.maxRetries - 1
       /\ out.trace[i].n = out.baseDelay * Pow2(out.trace[i - 1].n)
       /\ i < Len(out.trace) => out.trace[i + 1].kind \in {"ok", "err"}
       /\ i = Len(out.trace) => call = "loop"
  /\ \A i \in Invocations :
       (out.trace[i].kind = "err" /\ out.trace[i].n < out.maxRetries - 1
          /\ i < Len(out.trace))
         => out.trace[i + 1].kind = "sleep"

(* The call throws only after maxRetries failed attempts, and throws the   *)
(* error of the last one.                                                  *)
RethrowsLastError ==
  call = "thrown" =>
    /\ Cardinality(Invocations) = out.maxRetries
    /\ \A i \in Invocations : out.trace[i].kind = "err"
    /\ out.maxRetries > 0 => out.error = ErrorOf(out.maxRetries - 1)

(* C30: the function returned by retryWithBackOff invokes func at most     *)
(* maxRetries times, returns the result of the first invocation that does  *)
(* not throw without invoking func again, sleeps baseDelay * 2^attempt     *)
(* only between a failed attempt and the next one, never after the last,   *)
(* and rethrows the error of the last attempt when all attempts throw.     *)
C30_RetryWithBackOff ==
  /\ AtMostMaxRetries
  /\ ReturnsFirstResult
  /\ SleepsOnlyBetweenAttempts
  /\ RethrowsLastError

(* All of three attempts threw: two sleeps, of 1000 and 2000, and the      *)
(* third error is rethrown.                                                *)
C30_Witness ==
  /\ call = "thrown"
  /\ out.maxRetries = 3
  /\ out.trace = <<Event("err", 0), Event("sleep", 1000), Event("err", 1),
                   Event("sleep", 2000), Event("err", 2)>>
  /\ out.error = ErrorOf(2)
====
